---- MODULE Spec2Model ----
(***************************************************************************)
(* Conversation memory of deno-telegram-buddy.                             *)
(*                                                                         *)
(* kvStore.deno.ts : Deno KV tier with an in-process fallback map and the   *)
(*                   kvClient latch that selects between them.             *)
(* db.supabase.ts  : the relational tier (conversations table).            *)
(*                                                                         *)
(* Every exported async function is split at its awaits: one action per    *)
(* await, which applies the awaited backend operation (or lets it fail)    *)
(* and runs the continuation up to the next await.  Tasks are the async    *)
(* activations that may be in flight in one process.                       *)
(***************************************************************************)
EXTENDS Integers, Sequences, FiniteSets, TLC

VARIABLES
    kvRuntime,       \* what globalThis.Deno.openKv is in this process
    kvClient,        \* kvStore.deno.ts:19  TRUE = a client, FALSE = null
    kv,              \* durable KV entries under ["chat", chatId], in key order
    kvPrompts,       \* durable KV entries under ["prompt", chatId]
    memoryFallback,  \* kvStore.deno.ts:31
    promptsFallback, \* kvStore.deno.ts:33
    now,             \* the wall clock as last read by new Date() (it never runs backwards)
    calls,           \* per chat: number of saveInteraction calls made so far
    pc,              \* per task: the await it is suspended at, or "idle"
    cur,             \* per task: the locals of the activation in flight
    ret,             \* what the call that completed last returned
    issued,          \* the last step issued a KV operation
    firstOp,         \* tier on which the first store operation of this process ran
    lastTs,          \* per chat: timestamp of the latest saveInteraction call
    tsTie,           \* per chat: some call got a timestamp not above the previous one
    restarts,        \* process restarts so far
    prevDemoted,     \* the previous process had demoted away from KV
    conversations,   \* db.supabase.ts:62  rows of the conversations table
    inserted,        \* number of rows ever inserted (orders created_at)
    dbpc,            \* per task: the Supabase request it awaits, or "idle"
    dbcur,           \* per task: the locals of saveConversation in flight
    dbret,           \* per task: how its last saveConversation ended
    input,           \* the arguments a pure function is applied to
    output,          \* the results of its applications so far
    controller,      \* which handleTelegramUpdate the process runs
    supabaseEnv,     \* SUPABASE_URL and SUPABASE_SERVICE_ROLE_KEY are set
    chat_prompts,    \* db.supabase.ts:84  the prompt column, per chat_id
    chatPrompts,     \* dataStore.deno.ts:26
    storeMessages,   \* dataStore.deno.ts:22  number of records added
    updates,         \* webhook updates received so far, over all processes
    hpc,             \* per task: the await its handler is suspended at
    hcur,            \* per task: the locals of its handler
    hret,            \* how the handler that returned last ended
    outbox,          \* the replies handed to the outbound send, in order
    savedAs,         \* per update: the saveInteraction call that stored it
    lastSet,         \* per chat: the latest /setprompt text and its process
    dbJson,          \* part_005:316  db.json: per chat, the messages on disk
    written,         \* per chat: every record as saveInteraction built it
    dbJsonPrompts,   \* part_005:316  db.json: per chat, the prompt on disk
    loaded,          \* part_005:379, 422: per task, the `db` that loadDB returned
    diskFailed       \* a read or a write of db.json has failed (history variable)

kvVars == <<kvRuntime, kvClient, kv, kvPrompts, memoryFallback, promptsFallback,
            now, calls, pc, cur, ret, issued, firstOp, lastTs, tsTie, restarts,
            prevDemoted>>

dbVars == <<conversations, inserted, dbpc, dbcur, dbret>>

fnVars == <<input, output>>

botVars == <<controller, supabaseEnv, chat_prompts, chatPrompts, storeMessages,
            updates, hpc, hcur, hret, outbox, savedAs, lastSet>>

diskVars == <<dbJson, written, dbJsonPrompts, loaded, diskFailed>>

appVars == <<fnVars, botVars, diskVars>>

vars == <<kvVars, dbVars, appVars>>

----------------------------------------------------------------------------
(* Bounds of the model *)

MaxSaves == 7
MaxClock == 7
MaxRestarts == 1
MaxNewSaves == 2
MaxInserts == 3
MaxConcurrentSaves == 1
MaxLimit == 3
MaxLimitSaves == 3
MaxStored == 4
MaxKeep == 3
MaxPrunes == 2
MaxHistory == 2
MaxLines == 2
MaxUpdates == 2
MaxPromptUpdates == 3
MaxWebhookUpdates == 2
MaxDiskSaves == 2
MaxSnapshot == 11
MaxSnapshotRows == 6
MaxAdminInserts == 7

(* Program constants *)

DEFAULT_KEEP == 5

Chats == {1, 2}
Tasks == {1, 2}
SeqTasks == {1}
SingleChat == {1}
Prompts == {"X", "Y"}
NoPrompt == "null"
Runtimes == {"present", "absent", "throws"}
Errors == {"Unavailable", "Corrupt"}
Controllers == {"botController.deno.ts", "part_004"}
NoError == "none"

----------------------------------------------------------------------------
(* Pure helpers *)

Min(a, b) == IF a < b THEN a ELSE b
Max(a, b) == IF a > b THEN a ELSE b

\* Array.prototype.slice(start) for start >= 0
SliceFrom(s, start) == SubSeq(s, start + 1, Len(s))

\* Array.prototype.slice(-n): slice(-0) is slice(0), the whole array
SliceNeg(s, n) == IF n = 0 THEN s ELSE SliceFrom(s, Max(0, Len(s) - n))

RECURSIVE InsertSorted(_, _, _)
\* insert x after every element e of the sorted prefix s with ~Before(x, e)
InsertSorted(s, x, desc) ==
    IF s = << >> THEN <<x>>
    ELSE LET last == s[Len(s)]
             xFirst == IF desc THEN x.timestamp > last.timestamp
                               ELSE x.timestamp < last.timestamp
         IN IF xFirst
            THEN Append(InsertSorted(SubSeq(s, 1, Len(s) - 1), x, desc), last)
            ELSE Append(s, x)

RECURSIVE StableSort(_, _)
\* Array.prototype.sort with a comparator on timestamp only (stable)
StableSort(s, desc) ==
    IF s = << >> THEN << >>
    ELSE InsertSorted(StableSort(SubSeq(s, 1, Len(s) - 1), desc), s[Len(s)], desc)

SortAscending(s) == StableSort(s, FALSE)
SortDescending(s) == StableSort(s, TRUE)

\* the key of a stored record: its chat and, standing for timestamp and id,
\* the number of the saveInteraction call that wrote it
KeyOf(r) == <<r.chat, r.call>>
KeysOf(s) == {KeyOf(s[i]) : i \in 1..Len(s)}

RECURSIVE Without(_, _)
\* the entries of s whose key is not in D, order kept
Without(s, D) ==
    IF s = << >> THEN << >>
    ELSE LET rest == Without(SubSeq(s, 1, Len(s) - 1), D)
         IN IF KeyOf(s[Len(s)]) \in D THEN rest ELSE Append(rest, s[Len(s)])

\* kvClient.delete(key) for every key of D
Delete(store, D) == [c \in DOMAIN store |-> Without(store[c], D)]

\* kvClient.list({ prefix: [CHAT_PREFIX, chatId] })
ListEveryChat(store, c) == store[1] \o store[2]
ListPrefix(store, c) == store[c]

Range(s) == {s[i] : i \in 1..Len(s)}
CallsOf(s) == {s[i].call : i \in 1..Len(s)}
CallSeq(s) == [i \in 1..Len(s) |-> s[i].call]

\* buildKey: [CHAT_PREFIX, chatId, timestamp, id].  KV lists a prefix in key
\* order: by timestamp, then by the random id.  The id of a new key can fall
\* anywhere among the ids already stored with the same timestamp.
buildKey(s, r) ==
    {p \in 0..Len(s) :
        /\ \A i \in 1..p : s[i].timestamp <= r.timestamp
        /\ \A i \in (p + 1)..Len(s) : s[i].timestamp >= r.timestamp}

InsertAt(s, p, r) == SubSeq(s, 1, p) \o <<r>> \o SubSeq(s, p + 1, Len(s))

\* the module initialiser: kvClient = Deno.openKv() when it is a function
\* and does not throw, else null
ModuleInitNeverOpens(runtime) == FALSE
ModuleInit(runtime) == runtime = "present"

\* `if (kvClient)` at the head of every operation
KvGuardAlways(client) == TRUE
KvGuard(client) == client

CatchKeepsClient(client, e) == client
CatchUnavailableOnly(client, e) == IF e = "Unavailable" THEN FALSE ELSE client
\* `catch (e) { kvClient = null }`: every error class demotes
Catch(client, e) == FALSE

\* the fallback branch of saveInteraction: push, keep the last `keep`
FallbackPushKeepsHead(arr, record, keep) == SubSeq(Append(arr, record), 1, Min(Len(arr) + 1, keep))
FallbackPush(arr, record, keep) ==
    LET pushed == Append(arr, record)
    IN SliceFrom(pushed, Max(0, Len(pushed) - keep))

\* the fallback branch of getLastMessages
FallbackReadIgnoresLimit(arr, limit) == arr
FallbackRead(arr, limit) == SliceFrom(arr, Max(0, Len(arr) - limit))

\* the KV branch of getLastMessages over the listed items
KvReadNewestFirst(items, limit) ==
    IF Len(items) = 0 THEN << >> ELSE SliceNeg(SortDescending(items), limit)
KvRead(items, limit) ==
    IF Len(items) = 0 THEN << >> ELSE SliceNeg(SortAscending(items), limit)

\* pruneOldMessagesKV: the keys it deletes, given the listed items
ToDeleteOldestKept(items, keep) ==
    IF Len(items) <= keep THEN {}
    ELSE KeysOf(SubSeq(SortDescending(items), 1, Len(items) - keep))
ToDeleteAtKeep(items, keep) ==
    IF Len(items) < keep THEN {}
    ELSE KeysOf(SliceFrom(SortDescending(items), keep - 1))
ToDelete(items, keep) ==
    IF Len(items) <= keep THEN {}
    ELSE KeysOf(SliceFrom(SortDescending(items), keep))

----------------------------------------------------------------------------
(* State *)

Idle == [chat |-> 0, record |-> [chat |-> 0, timestamp |-> 0, call |-> 0],
         del |-> {}, limit |-> 0, prompt |-> NoPrompt, items |-> << >>]

NoRet == [kind |-> "none", chat |-> 0, outcome |-> "none", value |-> << >>,
          prompt |-> NoPrompt, kvWrote |-> FALSE, memWrote |-> FALSE,
          err |-> NoError, call |-> 0, view |-> << >>, arg |-> NoPrompt,
          limit |-> 0]

DbIdle == [chat_id |-> 0, id |-> 0, keepIds |-> {}]
DbNoRet == [outcome |-> "none", chat_id |-> 0, id |-> 0, pruneError |-> FALSE]

\* rows 1..n of one chat, as n earlier saveConversation calls leave them
StoredRows(c, n) == {[id |-> i, chat_id |-> c, created_at |-> i] : i \in 1..n}

\* the conversations table holds 4 rows of chat 1; nothing is in flight
InitDb ==
    /\ conversations = StoredRows(1, 4)
    /\ inserted = 4
    /\ dbpc = [t \in Tasks |-> "idle"]
    /\ dbcur = [t \in Tasks |-> DbIdle]
    /\ dbret = [t \in Tasks |-> DbNoRet]

NoReply == [text |-> "none", prompt |-> NoPrompt]

HIdle == [handler |-> "none", update |-> 0, chat |-> 0, cmd |-> "none",
          history |-> << >>, storedPrompt |-> NoPrompt, storageFailed |-> FALSE,
          llmCalled |-> FALSE, reply |-> NoReply]

HNoRet == [handler |-> "none", update |-> 0, chat |-> 0, cmd |-> "none",
           outcome |-> "none", history |-> << >>, storedPrompt |-> NoPrompt,
           storageFailed |-> FALSE, llmCalled |-> FALSE, reply |-> NoReply,
           sent |-> FALSE, persisted |-> "none"]

\* what loadDB returns: per chat the messages and the prompt; `{ chats: {} }`
\* when db.json cannot be read or parsed (part_005:318-325)
NotLoaded == [messages |-> << >>, prompts |-> << >>]
EmptyDB == [messages |-> [c \in Chats |-> << >>],
            prompts |-> [c \in Chats |-> NoPrompt]]

InitDisk ==
    /\ dbJson = [c \in Chats |-> << >>]
    /\ written = [c \in Chats |-> << >>]
    /\ dbJsonPrompts = [c \in Chats |-> NoPrompt]
    /\ loaded = [t \in Tasks |-> NotLoaded]
    /\ diskFailed = FALSE

\* no update has been received, the in-process dataStore is empty
InitHandlers ==
    /\ chatPrompts = [c \in Chats |-> NoPrompt]
    /\ storeMessages = 0
    /\ updates = 0
    /\ hpc = [t \in Tasks |-> "idle"]
    /\ hcur = [t \in Tasks |-> HIdle]
    /\ hret = HNoRet
    /\ outbox = << >>
    /\ savedAs = << >>
    /\ lastSet = [c \in Chats |-> [prompt |-> NoPrompt, process |-> 0]]

\* the deployed entry point with a configured Supabase and no stored prompt
InitBot ==
    /\ InitHandlers
    /\ controller = "botController.deno.ts"
    /\ supabaseEnv = TRUE
    /\ chat_prompts = [c \in Chats |-> NoPrompt]

\* no pure function is under test; no db.json has been written
InitFn ==
    /\ input = << >>
    /\ output = << >>
    /\ InitDisk

\* the module state of kvStore.deno.ts in a process that has just loaded it
InitModule ==
    /\ kvRuntime \in Runtimes
    /\ kvClient = ModuleInit(kvRuntime)
    /\ memoryFallback = [c \in Chats |-> << >>]
    /\ promptsFallback = [c \in Chats |-> NoPrompt]
    /\ now = 0
    /\ pc = [t \in Tasks |-> "idle"]
    /\ cur = [t \in Tasks |-> Idle]
    /\ ret = NoRet
    /\ issued = FALSE
    /\ firstOp = "none"
    /\ tsTie = [c \in Chats |-> FALSE]
    /\ restarts = 0
    /\ prevDemoted = FALSE

\* a process that has just loaded the module
InitProcess ==
    /\ InitDb
    /\ InitFn
    /\ InitBot
    /\ InitModule

\* ... over an empty KV database
InitKv ==
    /\ InitProcess
    /\ kv = [c \in Chats |-> << >>]
    /\ kvPrompts = [c \in Chats |-> NoPrompt]
    /\ calls = [c \in Chats |-> 0]
    /\ lastTs = [c \in Chats |-> -1]

\* what n <= DEFAULT_KEEP earlier calls on chat c, at distinct milliseconds
\* before this process started, have left in KV
Stored(c, n) == [i \in 1..n |-> [chat |-> c, timestamp |-> i - 1 - n, call |-> i]]

\* ... over a KV database in which an earlier process left chat 1 full
InitStored ==
    /\ InitProcess
    /\ kv = [c \in Chats |-> IF c = 1 THEN Stored(c, DEFAULT_KEEP) ELSE << >>]
    /\ kvPrompts = [c \in Chats |-> NoPrompt]
    /\ calls = [c \in Chats |-> IF c = 1 THEN DEFAULT_KEEP ELSE 0]
    /\ lastTs = [c \in Chats |-> -1]

\* ... over a KV database that holds DEFAULT_KEEP - 1 records of each chat
InitPair ==
    /\ InitProcess
    /\ kv = [c \in Chats |-> Stored(c, DEFAULT_KEEP - 1)]
    /\ calls = [c \in Chats |-> DEFAULT_KEEP - 1]
    /\ kvPrompts = [c \in Chats |-> NoPrompt]
    /\ lastTs = [c \in Chats |-> -1]

FirstOp(onKv) ==
    IF firstOp = "none" THEN (IF onKv THEN "kv" ELSE "memory") ELSE firstOp

----------------------------------------------------------------------------
(* saveInteraction, kvStore.deno.ts:40-80 *)

\* the same without the catch of lines 67-71: the error leaves the function
SaveRethrows(t, c, record, e, wroteKv) ==
    /\ pc' = [pc EXCEPT ![t] = "idle"]
    /\ cur' = [cur EXCEPT ![t] = Idle]
    /\ ret' = [NoRet EXCEPT !.kind = "save", !.chat = c,
                            !.outcome = IF e = NoError THEN "returned" ELSE "threw",
                            !.kvWrote = wroteKv, !.err = e, !.call = record.call]
    /\ UNCHANGED memoryFallback

\* lines 73-79, reached when kvClient is null or after the catch
SaveFallback(t, c, record, e, wroteKv) ==
    /\ memoryFallback' = [memoryFallback EXCEPT
                            ![c] = FallbackPush(@, record, DEFAULT_KEEP)]
    /\ pc' = [pc EXCEPT ![t] = "idle"]
    /\ cur' = [cur EXCEPT ![t] = Idle]
    /\ ret' = [NoRet EXCEPT !.kind = "save", !.chat = c,
                                     !.outcome = "returned", !.kvWrote = wroteKv,
                                     !.memWrote = TRUE, !.err = e,
                                     !.call = record.call]

\* line 66: the return inside the try
SaveReturn(t, c, record) ==
    /\ pc' = [pc EXCEPT ![t] = "idle"]
    /\ cur' = [cur EXCEPT ![t] = Idle]
    /\ ret' = [NoRet EXCEPT !.kind = "save", !.chat = c,
                                     !.outcome = "returned", !.kvWrote = TRUE,
                                     !.call = record.call]
    /\ UNCHANGED memoryFallback

\* lines 48-62: build the record, then set it in KV or fall back
saveInteraction(t, c) ==
    /\ UNCHANGED dbVars
    /\ pc[t] = "idle"
    /\ now' \in now..Min(now + 1, MaxClock)
    /\ LET record == [chat |-> c, timestamp |-> now', call |-> calls[c] + 1]
       IN /\ calls' = [calls EXCEPT ![c] = @ + 1]
          /\ lastTs' = [lastTs EXCEPT ![c] = now']
          /\ tsTie' = [tsTie EXCEPT ![c] = @ \/ now' <= lastTs[c]]
          /\ firstOp' = FirstOp(KvGuard(kvClient))
          /\ issued' = KvGuard(kvClient)
          /\ IF KvGuard(kvClient)
             THEN /\ pc' = [pc EXCEPT ![t] = "saveSet"]
                  /\ cur' = [cur EXCEPT ![t] = [Idle EXCEPT !.chat = c,
                                                   !.record = record]]
                  /\ UNCHANGED <<ret, memoryFallback>>
             ELSE SaveFallback(t, c, record, NoError, FALSE)
    /\ UNCHANGED <<kvRuntime, kvClient, kv, kvPrompts, promptsFallback,
                   restarts, prevDemoted>>

\* line 62 resolves; line 65 enters pruneOldMessagesKV, whose first statement
\* (line 152) dereferences kvClient
SaveSetDone(t) ==
    /\ UNCHANGED dbVars
    /\ pc[t] = "saveSet"
    /\ LET c == cur[t].chat
           record == cur[t].record
       IN \/ /\ \E p \in buildKey(kv[c], record) :
                    kv' = [kv EXCEPT ![c] = InsertAt(@, p, record)]
             /\ IF kvClient
                THEN /\ pc' = [pc EXCEPT ![t] = "saveList"]
                     /\ issued' = TRUE
                     /\ UNCHANGED <<cur, ret, memoryFallback, kvClient>>
                ELSE /\ kvClient' = FALSE
                     /\ issued' = FALSE
                     /\ SaveFallback(t, c, record, NoError, TRUE)
          \/ /\ \E e \in Errors :
                    /\ kvClient' = Catch(kvClient, e)
                    /\ SaveFallback(t, c, record, e, FALSE)
             /\ issued' = FALSE
             /\ UNCHANGED kv
    /\ UNCHANGED <<kvRuntime, kvPrompts, promptsFallback, now, calls, firstOp,
                   lastTs, tsTie, restarts, prevDemoted>>

\* lines 152-164: the listing is complete; delete what lies beyond `keep`
SaveListDone(t) ==
    /\ UNCHANGED dbVars
    /\ pc[t] = "saveList"
    /\ LET c == cur[t].chat
           record == cur[t].record
           toDelete == ToDelete(ListPrefix(kv, c), DEFAULT_KEEP)
       IN \/ /\ toDelete = {}
             /\ issued' = FALSE
             /\ SaveReturn(t, c, record)
             /\ UNCHANGED kvClient
          \/ /\ toDelete # {}
             /\ IF kvClient
                THEN /\ pc' = [pc EXCEPT ![t] = "saveDel"]
                     /\ cur' = [cur EXCEPT ![t].del = toDelete]
                     /\ issued' = TRUE
                     /\ UNCHANGED <<ret, memoryFallback, kvClient>>
                ELSE /\ kvClient' = FALSE
                     /\ issued' = FALSE
                     /\ SaveFallback(t, c, record, NoError, TRUE)
          \/ /\ \E e \in Errors :
                    /\ kvClient' = Catch(kvClient, e)
                    /\ SaveFallback(t, c, record, e, TRUE)
             /\ issued' = FALSE
    /\ UNCHANGED <<kvRuntime, kv, kvPrompts, promptsFallback, now, calls,
                   firstOp, lastTs, tsTie, restarts, prevDemoted>>

\* line 164: Promise.all over the deletes resolves, or one delete rejects
\* (the others may have been applied)
SaveDelDone(t) ==
    /\ UNCHANGED dbVars
    /\ pc[t] = "saveDel"
    /\ LET c == cur[t].chat
           record == cur[t].record
       IN \/ /\ kv' = Delete(kv, cur[t].del)
             /\ SaveReturn(t, c, record)
             /\ UNCHANGED kvClient
          \/ \E e \in Errors, D \in SUBSET cur[t].del :
                /\ D # cur[t].del
                /\ kv' = Delete(kv, D)
                /\ kvClient' = Catch(kvClient, e)
                /\ SaveFallback(t, c, record, e, TRUE)
    /\ issued' = FALSE
    /\ UNCHANGED <<kvRuntime, kvPrompts, promptsFallback, now, calls, firstOp,
                   lastTs, tsTie, restarts, prevDemoted>>

----------------------------------------------------------------------------
(* getLastMessages, kvStore.deno.ts:123-148 *)

\* the same without the catch of lines 138-142
ReadRethrows(t, c, limit, value, e) ==
    /\ pc' = [pc EXCEPT ![t] = "idle"]
    /\ cur' = [cur EXCEPT ![t] = Idle]
    /\ ret' = [NoRet EXCEPT !.kind = "read", !.chat = c,
                            !.outcome = IF e = NoError THEN "returned" ELSE "threw",
                            !.limit = limit, !.err = e]

ReadReturn(t, c, limit, value, e) ==
    /\ pc' = [pc EXCEPT ![t] = "idle"]
    /\ cur' = [cur EXCEPT ![t] = Idle]
    /\ ret' = [NoRet EXCEPT !.kind = "read", !.chat = c,
                                     !.outcome = "returned", !.limit = limit,
                                     !.value = value, !.err = e]

getLastMessages(t, c, limit) ==
    /\ UNCHANGED dbVars
    /\ pc[t] = "idle"
    /\ firstOp' = FirstOp(KvGuard(kvClient))
    /\ issued' = KvGuard(kvClient)
    /\ IF KvGuard(kvClient)
       THEN /\ pc' = [pc EXCEPT ![t] = "read"]
            /\ cur' = [cur EXCEPT ![t] = [Idle EXCEPT !.chat = c, !.limit = limit]]
            /\ UNCHANGED ret
       ELSE ReadReturn(t, c, limit, FallbackRead(memoryFallback[c], limit), NoError)
    /\ UNCHANGED <<kvRuntime, kvClient, kv, kvPrompts, memoryFallback,
                   promptsFallback, now, calls, lastTs, tsTie, restarts,
                   prevDemoted>>

ReadDone(t) ==
    /\ UNCHANGED dbVars
    /\ pc[t] = "read"
    /\ LET c == cur[t].chat
           limit == cur[t].limit
       IN \/ /\ ReadReturn(t, c, limit, KvRead(ListPrefix(kv, c), limit), NoError)
             /\ UNCHANGED kvClient
          \/ \E e \in Errors :
                /\ kvClient' = Catch(kvClient, e)
                /\ ReadReturn(t, c, limit, FallbackRead(memoryFallback[c], limit), e)
    /\ issued' = FALSE
    /\ UNCHANGED <<kvRuntime, kv, kvPrompts, memoryFallback, promptsFallback,
                   now, calls, firstOp, lastTs, tsTie, restarts, prevDemoted>>

----------------------------------------------------------------------------
(* setPrompt, getPrompt, clearPrompt, kvStore.deno.ts:83-120 *)

\* arg: the prompt the call was given; value: the prompt it returns
PromptReturn(t, c, kind, arg, value, e) ==
    /\ pc' = [pc EXCEPT ![t] = "idle"]
    /\ cur' = [cur EXCEPT ![t] = Idle]
    /\ ret' = [NoRet EXCEPT !.kind = kind, !.chat = c,
                                     !.outcome = "returned", !.arg = arg,
                                     !.prompt = value, !.err = e]

PromptFrame ==
    UNCHANGED <<kvRuntime, kv, memoryFallback, now, calls, lastTs, tsTie,
                restarts, prevDemoted>>

setPrompt(t, c, prompt) ==
    /\ UNCHANGED dbVars
    /\ pc[t] = "idle"
    /\ firstOp' = FirstOp(KvGuard(kvClient))
    /\ issued' = KvGuard(kvClient)
    /\ IF KvGuard(kvClient)
       THEN /\ pc' = [pc EXCEPT ![t] = "setPrompt"]
            /\ cur' = [cur EXCEPT ![t] = [Idle EXCEPT !.chat = c, !.prompt = prompt]]
            /\ UNCHANGED <<ret, promptsFallback>>
       ELSE /\ promptsFallback' = [promptsFallback EXCEPT ![c] = prompt]
            /\ PromptReturn(t, c, "setPrompt", prompt, NoPrompt, NoError)
    /\ UNCHANGED <<kvClient, kvPrompts>>
    /\ PromptFrame

SetPromptDone(t) ==
    /\ UNCHANGED dbVars
    /\ pc[t] = "setPrompt"
    /\ LET c == cur[t].chat
       IN \/ /\ kvPrompts' = [kvPrompts EXCEPT ![c] = cur[t].prompt]
             /\ PromptReturn(t, c, "setPrompt", cur[t].prompt, NoPrompt, NoError)
             /\ UNCHANGED <<kvClient, promptsFallback>>
          \/ \E e \in Errors :
                /\ kvClient' = Catch(kvClient, e)
                /\ promptsFallback' = [promptsFallback EXCEPT ![c] = cur[t].prompt]
                /\ PromptReturn(t, c, "setPrompt", cur[t].prompt, NoPrompt, e)
                /\ UNCHANGED kvPrompts
    /\ issued' = FALSE
    /\ UNCHANGED firstOp
    /\ PromptFrame

getPrompt(t, c) ==
    /\ UNCHANGED dbVars
    /\ pc[t] = "idle"
    /\ firstOp' = FirstOp(KvGuard(kvClient))
    /\ issued' = KvGuard(kvClient)
    /\ IF KvGuard(kvClient)
       THEN /\ pc' = [pc EXCEPT ![t] = "getPrompt"]
            /\ cur' = [cur EXCEPT ![t] = [Idle EXCEPT !.chat = c]]
            /\ UNCHANGED ret
       ELSE PromptReturn(t, c, "getPrompt", NoPrompt, promptsFallback[c], NoError)
    /\ UNCHANGED <<kvClient, kvPrompts, promptsFallback>>
    /\ PromptFrame

GetPromptDone(t) ==
    /\ UNCHANGED dbVars
    /\ pc[t] = "getPrompt"
    /\ LET c == cur[t].chat
       IN \/ /\ PromptReturn(t, c, "getPrompt", NoPrompt, kvPrompts[c], NoError)
             /\ UNCHANGED kvClient
          \/ \E e \in Errors :
                /\ kvClient' = Catch(kvClient, e)
                /\ PromptReturn(t, c, "getPrompt", NoPrompt, promptsFallback[c], e)
    /\ issued' = FALSE
    /\ UNCHANGED <<firstOp, kvPrompts, promptsFallback>>
    /\ PromptFrame

clearPrompt(t, c) ==
    /\ UNCHANGED dbVars
    /\ pc[t] = "idle"
    /\ firstOp' = FirstOp(KvGuard(kvClient))
    /\ issued' = KvGuard(kvClient)
    /\ IF KvGuard(kvClient)
       THEN /\ pc' = [pc EXCEPT ![t] = "clearPrompt"]
            /\ cur' = [cur EXCEPT ![t] = [Idle EXCEPT !.chat = c]]
            /\ UNCHANGED <<ret, promptsFallback>>
       ELSE /\ promptsFallback' = [promptsFallback EXCEPT ![c] = NoPrompt]
            /\ PromptReturn(t, c, "clearPrompt", NoPrompt, NoPrompt, NoError)
    /\ UNCHANGED <<kvClient, kvPrompts>>
    /\ PromptFrame

ClearPromptDone(t) ==
    /\ UNCHANGED dbVars
    /\ pc[t] = "clearPrompt"
    /\ LET c == cur[t].chat
       IN \/ /\ kvPrompts' = [kvPrompts EXCEPT ![c] = NoPrompt]
             /\ PromptReturn(t, c, "clearPrompt", NoPrompt, NoPrompt, NoError)
             /\ UNCHANGED <<kvClient, promptsFallback>>
          \/ \E e \in Errors :
                /\ kvClient' = Catch(kvClient, e)
                /\ promptsFallback' = [promptsFallback EXCEPT ![c] = NoPrompt]
                /\ PromptReturn(t, c, "clearPrompt", NoPrompt, NoPrompt, e)
                /\ UNCHANGED kvPrompts
    /\ issued' = FALSE
    /\ UNCHANGED firstOp
    /\ PromptFrame

----------------------------------------------------------------------------
(* getFullDB, kvStore.deno.ts:171-234 *)

\* lines 201-229 over the listed records and the prompts that were read
FullDBView(items, prompts) ==
    [c \in {x \in Chats : Len(items[x]) > 0} |->
        [prompt |-> prompts[c],
         totalMessages |-> Len(items[c]),
         recentMessages |-> CallSeq(SliceNeg(SortAscending(items[c]), 10))]]

FullDBReturn(t, outcome, view, e) ==
    /\ pc' = [pc EXCEPT ![t] = "idle"]
    /\ cur' = [cur EXCEPT ![t] = Idle]
    /\ ret' = [NoRet EXCEPT !.kind = "getFullDB",
                                     !.outcome = outcome, !.view = view,
                                     !.err = e]

FullDBFrame ==
    UNCHANGED <<kvRuntime, kvClient, kv, kvPrompts, memoryFallback,
                promptsFallback, now, calls, lastTs, tsTie, restarts,
                prevDemoted>>

\* line 172 returns null without touching KV; line 175 starts the listing
getFullDB(t) ==
    /\ UNCHANGED dbVars
    /\ pc[t] = "idle"
    /\ firstOp' = FirstOp(KvGuard(kvClient))
    /\ issued' = KvGuard(kvClient)
    /\ IF KvGuard(kvClient)
       THEN /\ pc' = [pc EXCEPT ![t] = "fullDB"]
            /\ UNCHANGED <<cur, ret>>
       ELSE FullDBReturn(t, "null", << >>, NoError)
    /\ FullDBFrame

\* lines 178-190: the records are listed; the prompt listing starts inside
\* its own try, which also swallows the TypeError of a kvClient nulled meanwhile
FullDBDone(t) ==
    /\ UNCHANGED dbVars
    /\ pc[t] = "fullDB"
    /\ \/ /\ IF kvClient
             THEN /\ pc' = [pc EXCEPT ![t] = "fullDBPrompts"]
                  /\ cur' = [cur EXCEPT ![t].items = kv]
                  /\ issued' = TRUE
                  /\ UNCHANGED ret
             ELSE /\ issued' = FALSE
                  /\ FullDBReturn(t, "view",
                                  FullDBView(kv, [c \in Chats |-> NoPrompt]), NoError)
       \/ /\ \E e \in Errors : FullDBReturn(t, "null", << >>, e)
          /\ issued' = FALSE
    /\ UNCHANGED firstOp
    /\ FullDBFrame

\* lines 191-199: prompt read failures are ignored
FullDBPromptsDone(t) ==
    /\ UNCHANGED dbVars
    /\ pc[t] = "fullDBPrompts"
    /\ \/ FullDBReturn(t, "view", FullDBView(cur[t].items, kvPrompts), NoError)
       \/ \E e \in Errors :
             FullDBReturn(t, "view",
                          FullDBView(cur[t].items, [c \in Chats |-> NoPrompt]), e)
    /\ issued' = FALSE
    /\ UNCHANGED firstOp
    /\ FullDBFrame

----------------------------------------------------------------------------
(* Process restart: module state is rebuilt, the durable KV entries stay *)

Restart ==
    /\ UNCHANGED dbVars
    /\ restarts < MaxRestarts
    /\ restarts' = restarts + 1
    /\ prevDemoted' = (ModuleInit(kvRuntime) /\ ~kvClient)
    /\ kvRuntime' \in Runtimes
    /\ kvClient' = ModuleInit(kvRuntime')
    /\ memoryFallback' = [c \in Chats |-> << >>]
    /\ promptsFallback' = [c \in Chats |-> NoPrompt]
    /\ pc' = [t \in Tasks |-> "idle"]
    /\ cur' = [t \in Tasks |-> Idle]
    /\ ret' = NoRet
    /\ issued' = FALSE
    /\ firstOp' = "none"
    /\ UNCHANGED <<kv, kvPrompts, now, calls, lastTs, tsTie>>

----------------------------------------------------------------------------
(* One caller awaiting each call before the next, one chat *)

NextSeq ==
    \E t \in SeqTasks :
        \/ \E c \in SingleChat : calls[c] < MaxSaves /\ saveInteraction(t, c) /\ UNCHANGED appVars
        \/ SaveSetDone(t) /\ UNCHANGED appVars
        \/ SaveListDone(t) /\ UNCHANGED appVars
        \/ SaveDelDone(t) /\ UNCHANGED appVars
        \/ \E c \in SingleChat : getLastMessages(t, c, DEFAULT_KEEP) /\ UNCHANGED appVars
        \/ ReadDone(t) /\ UNCHANGED appVars

SpecSeq == InitKv /\ [][NextSeq]_vars

----------------------------------------------------------------------------
(* Concurrent activations in one process, over a KV database that an *)
(* earlier process has filled *)

NewSaves == calls[1] + calls[2] - DEFAULT_KEEP

Activation(t, saves) ==
    \/ \E c \in SingleChat : NewSaves < saves /\ saveInteraction(t, c) /\ UNCHANGED appVars
    \/ SaveSetDone(t) /\ UNCHANGED appVars
    \/ SaveListDone(t) /\ UNCHANGED appVars
    \/ SaveDelDone(t) /\ UNCHANGED appVars
    \/ \E c \in SingleChat : getLastMessages(t, c, DEFAULT_KEEP) /\ UNCHANGED appVars
    \/ ReadDone(t) /\ UNCHANGED appVars
    \/ \E c \in SingleChat, prompt \in Prompts : setPrompt(t, c, prompt) /\ UNCHANGED appVars
    \/ SetPromptDone(t) /\ UNCHANGED appVars
    \/ \E c \in SingleChat : getPrompt(t, c) /\ UNCHANGED appVars
    \/ GetPromptDone(t) /\ UNCHANGED appVars
    \/ \E c \in SingleChat : clearPrompt(t, c) /\ UNCHANGED appVars
    \/ ClearPromptDone(t) /\ UNCHANGED appVars
    \/ getFullDB(t) /\ UNCHANGED appVars
    \/ FullDBDone(t) /\ UNCHANGED appVars
    \/ FullDBPromptsDone(t) /\ UNCHANGED appVars

Next == \E t \in Tasks : Activation(t, MaxConcurrentSaves)

Spec == InitStored /\ [][Next]_vars

----------------------------------------------------------------------------
(* One caller at a time, and the process may be restarted *)

NextRestart ==
    \/ Restart /\ UNCHANGED appVars
    \/ \E t \in SeqTasks : Activation(t, MaxNewSaves)

SpecRestart == InitStored /\ [][NextRestart]_vars

----------------------------------------------------------------------------
(* Two callers, one per chat, each awaiting its own calls one after another *)

NextPair ==
    \E t \in Tasks :
        \/ calls[t] < DEFAULT_KEEP - 1 + MaxNewSaves /\ saveInteraction(t, t) /\ UNCHANGED appVars
        \/ SaveSetDone(t) /\ UNCHANGED appVars
        \/ SaveListDone(t) /\ UNCHANGED appVars
        \/ SaveDelDone(t) /\ UNCHANGED appVars
        \/ getLastMessages(t, t, DEFAULT_KEEP) /\ UNCHANGED appVars
        \/ ReadDone(t) /\ UNCHANGED appVars

SpecPair == InitPair /\ [][NextPair]_vars

----------------------------------------------------------------------------
(* One caller reading with every limit from 0 up *)

NextLimit ==
    \E t \in SeqTasks, c \in SingleChat :
        \/ calls[c] < MaxLimitSaves /\ saveInteraction(t, c) /\ UNCHANGED appVars
        \/ SaveSetDone(t) /\ UNCHANGED appVars
        \/ SaveListDone(t) /\ UNCHANGED appVars
        \/ \E limit \in 0..MaxLimit : getLastMessages(t, c, limit) /\ UNCHANGED appVars
        \/ ReadDone(t) /\ UNCHANGED appVars

SpecLimit == InitKv /\ [][NextLimit]_vars

----------------------------------------------------------------------------
(* saveConversation and pruneOldMessages, db.supabase.ts:102-166 *)

RowsOf(rows, c) == {r \in rows : r.chat_id = c}

\* .select("id").eq("chat_id", chatId).order("created_at", desc).limit(keep)
SelectNewestOffByOne(rows, c, keep) ==
    {r.id : r \in {x \in RowsOf(rows, c) :
                     Cardinality({y \in RowsOf(rows, c) : y.created_at > x.created_at}) < keep + 1}}
SelectNewest(rows, c, keep) ==
    {r.id : r \in {x \in RowsOf(rows, c) :
                     Cardinality({y \in RowsOf(rows, c) : y.created_at > x.created_at}) < keep}}

\* .delete().eq("chat_id", chatId).not("id", "in", keepIds)
DeleteNotIn(rows, c, keepIds) == {r \in rows : r.chat_id # c \/ r.id \in keepIds}

DbReturn(t, outcome, pruneError) ==
    /\ dbpc' = [dbpc EXCEPT ![t] = "idle"]
    /\ dbcur' = [dbcur EXCEPT ![t] = DbIdle]
    /\ dbret' = [dbret EXCEPT ![t] = [outcome |-> outcome,
                                         chat_id |-> dbcur[t].chat_id,
                                         id |-> dbcur[t].id,
                                         pruneError |-> pruneError]]

\* lines 109-119: the insert request is sent
saveConversation(t, c) ==
    /\ UNCHANGED kvVars
    /\ dbpc[t] = "idle"
    /\ dbpc' = [dbpc EXCEPT ![t] = "insert"]
    /\ dbcur' = [dbcur EXCEPT ![t] = [DbIdle EXCEPT !.chat_id = c]]
    /\ UNCHANGED <<conversations, inserted, dbret>>

\* lines 119-127 and 134-142: the insert is answered; on error it is rethrown,
\* otherwise the row exists (created_at = NOW()) and the prune's select is sent
InsertDone(t) ==
    /\ UNCHANGED kvVars
    /\ dbpc[t] = "insert"
    /\ \/ /\ inserted' = inserted + 1
          /\ conversations' = conversations \cup
                {[id |-> inserted', chat_id |-> dbcur[t].chat_id,
                  created_at |-> inserted']}
          /\ dbpc' = [dbpc EXCEPT ![t] = "select"]
          /\ dbcur' = [dbcur EXCEPT ![t].id = inserted']
          /\ UNCHANGED dbret
       \/ /\ DbReturn(t, "threw", FALSE)
          /\ UNCHANGED <<conversations, inserted>>

\* lines 144-161: the select is answered; a select error or fewer than `keep`
\* rows end the prune, otherwise the delete is sent
SelectDone(t) ==
    /\ UNCHANGED kvVars
    /\ dbpc[t] = "select"
    /\ LET keepIds == SelectNewest(conversations, dbcur[t].chat_id, DEFAULT_KEEP)
       IN \/ /\ Cardinality(keepIds) < DEFAULT_KEEP
             /\ DbReturn(t, "returned", FALSE)
          \/ /\ Cardinality(keepIds) >= DEFAULT_KEEP
             /\ dbpc' = [dbpc EXCEPT ![t] = "delete"]
             /\ dbcur' = [dbcur EXCEPT ![t].keepIds = keepIds]
             /\ UNCHANGED dbret
          \/ DbReturn(t, "returned", TRUE)
    /\ UNCHANGED <<conversations, inserted>>

\* lines 157-166: the delete is answered; a delete error is only logged
DeleteDone(t) ==
    /\ UNCHANGED kvVars
    /\ dbpc[t] = "delete"
    /\ \/ /\ conversations' =
                DeleteNotIn(conversations, dbcur[t].chat_id, dbcur[t].keepIds)
          /\ DbReturn(t, "returned", FALSE)
       \/ /\ DbReturn(t, "returned", TRUE)
          /\ UNCHANGED conversations
    /\ UNCHANGED inserted

\* saveConversation calls of one process, in flight together
NextDb ==
    \E t \in Tasks :
        \/ \E c \in Chats : inserted < 4 + MaxInserts /\ saveConversation(t, c) /\ UNCHANGED appVars
        \/ InsertDone(t) /\ UNCHANGED appVars
        \/ SelectDone(t) /\ UNCHANGED appVars
        \/ DeleteDone(t) /\ UNCHANGED appVars

SpecDb == InitKv /\ [][NextDb]_vars

----------------------------------------------------------------------------
(* handleTelegramUpdate: botController.deno.ts:70-185, and its variant    *)
(* with /setprompt and /getprompt, part_004:70-240.  A handler step that   *)
(* calls into kvStore.deno.ts is the conjunction with that call's action;  *)
(* a call that returns without suspending still ends the step.             *)

Apology == [text |-> "Sorry, I'm having trouble right now.", prompt |-> NoPrompt]
Generated == [text |-> "llmResult", prompt |-> NoPrompt]

Commands == {"/start", "/help", "/getprompt"}

\* the reply of /start, /help (lines 92, 113) and /getprompt (part_004:155-156)
CommandReply(cmd, prompt) ==
    IF cmd = "/getprompt"
    THEN IF prompt # NoPrompt
         THEN [text |-> "Current prompt", prompt |-> prompt]
         ELSE [text |-> "No prompt set for this chat.", prompt |-> NoPrompt]
    ELSE [text |-> cmd, prompt |-> NoPrompt]

\* sendTelegramMessage / sendReply is called with the reply
HandOverNothing(box, message) == box
HandOver(box, message) == Append(box, message)

Message(h) == [update |-> h.update, chat |-> h.chat, reply |-> h.reply]

\* `await kvGetPrompt(chatId) ?? dataStore.getPrompt(chatId)`, part_004:196
StoredPromptKvOnly(kvPrompt, storePrompt) == kvPrompt
StoredPrompt(kvPrompt, storePrompt) ==
    IF kvPrompt # NoPrompt THEN kvPrompt ELSE storePrompt

HConfig == UNCHANGED <<controller, supabaseEnv, chat_prompts, fnVars, diskVars>>

\* the handler of task t returns; h are its locals
HReturn(t, h, outcome, persisted) ==
    /\ hpc' = [hpc EXCEPT ![t] = "idle"]
    /\ hcur' = [hcur EXCEPT ![t] = HIdle]
    /\ hret' = [handler |-> h.handler, update |-> h.update, chat |-> h.chat,
                cmd |-> h.cmd, outcome |-> outcome, history |-> h.history,
                storedPrompt |-> h.storedPrompt,
                storageFailed |-> h.storageFailed, llmCalled |-> h.llmCalled,
                reply |-> h.reply,
                sent |-> \E i \in 1..Len(outbox) : outbox[i].update = h.update,
                persisted |-> persisted]

\* an update for chat c reaches a handler of kind `handler`
Receive(t, c, handler, cmd) ==
    /\ hpc[t] = "idle"
    /\ updates' = updates + 1
    /\ savedAs' = Append(savedAs, 0)

Locals(t, c, handler, cmd) ==
    [HIdle EXCEPT !.handler = handler, !.update = updates + 1, !.chat = c,
                  !.cmd = cmd]

\* lines 91-129 and part_004:154-157: a command is answered at once
HandleCommand(t, c, cmd) ==
    /\ cmd = "/getprompt" => controller = "part_004"
    /\ Receive(t, c, "handleTelegramUpdate", cmd)
    /\ LET h == [Locals(t, c, "handleTelegramUpdate", cmd) EXCEPT
                    !.reply = CommandReply(cmd, chatPrompts[c])]
       IN /\ outbox' = HandOver(outbox, Message(h))
          /\ hcur' = [hcur EXCEPT ![t] = h]
          /\ hpc' = [hpc EXCEPT ![t] = "send"]
    /\ UNCHANGED <<chatPrompts, storeMessages, hret, lastSet>>
    /\ UNCHANGED <<kvVars, dbVars>>
    /\ HConfig

\* part_004:132-139: /setprompt without a text is answered with the usage
HandleUsage(t, c) ==
    /\ controller = "part_004"
    /\ Receive(t, c, "handleTelegramUpdate", "/setprompt")
    /\ LET h == [Locals(t, c, "handleTelegramUpdate", "/setprompt") EXCEPT
                    !.reply = [text |-> "Usage", prompt |-> NoPrompt]]
       IN /\ outbox' = HandOver(outbox, Message(h))
          /\ hcur' = [hcur EXCEPT ![t] = h]
          /\ hpc' = [hpc EXCEPT ![t] = "ack"]
    /\ UNCHANGED <<chatPrompts, storeMessages, hret, lastSet>>
    /\ UNCHANGED <<kvVars, dbVars>>
    /\ HConfig

\* dataStore.deno.ts:57-60: `this.chatPrompts.set(chatId, prompt)`
dataStoreSetPromptOfAll(prompts, c, prompt) == [d \in Chats |-> prompt]
dataStoreSetPrompt(prompts, c, prompt) == [prompts EXCEPT ![c] = prompt]

\* part_004:141-147: the prompt goes to the dataStore, then to kvStore
HandleSetPrompt(t, c, prompt) ==
    /\ controller = "part_004"
    /\ Receive(t, c, "handleTelegramUpdate", "/setprompt")
    /\ chatPrompts' = dataStoreSetPrompt(chatPrompts, c, prompt)
    /\ lastSet' = [lastSet EXCEPT ![c] = [prompt |-> prompt, process |-> restarts]]
    /\ setPrompt(t, c, prompt)
    /\ LET h == [Locals(t, c, "handleTelegramUpdate", "/setprompt") EXCEPT
                    !.storedPrompt = prompt,
                    !.reply = [text |-> "Prompt saved for this chat.",
                               prompt |-> NoPrompt]]
       IN /\ hcur' = [hcur EXCEPT ![t] = h]
          /\ IF pc'[t] = "idle"
             THEN /\ outbox' = HandOver(outbox, Message(h))
                  /\ hpc' = [hpc EXCEPT ![t] = "ack"]
             ELSE /\ hpc' = [hpc EXCEPT ![t] = "setprompt"]
                  /\ UNCHANGED outbox
    /\ UNCHANGED <<storeMessages, hret>>
    /\ HConfig

\* part_004:147-149: kvSetPrompt has returned; the acknowledgement is sent
HSetPromptDone(t) ==
    /\ hpc[t] = "setprompt"
    /\ SetPromptDone(t)
    /\ outbox' = HandOver(outbox, Message(hcur[t]))
    /\ hpc' = [hpc EXCEPT ![t] = "ack"]
    /\ UNCHANGED <<chatPrompts, storeMessages, updates, hcur, hret, savedAs, lastSet>>
    /\ HConfig

\* part_004:138 and 149-150: the send has returned and the handler returns
HAckDone(t) ==
    /\ hpc[t] = "ack"
    /\ HReturn(t, hcur[t], "returned", "none")
    /\ UNCHANGED <<chatPrompts, storeMessages, updates, outbox, savedAs, lastSet>>
    /\ UNCHANGED <<kvVars, dbVars>>
    /\ HConfig

\* line 136: any other text starts with the history read
HandleText(t, c) ==
    /\ Receive(t, c, "handleTelegramUpdate", "text")
    /\ getLastMessages(t, c, 5)
    /\ LET h == Locals(t, c, "handleTelegramUpdate", "text")
       IN IF pc'[t] = "idle"
          THEN /\ hcur' = [hcur EXCEPT ![t] = [h EXCEPT !.history = CallSeq(ret'.value)]]
               /\ hpc' = [hpc EXCEPT ![t] = "gotHistory"]
          ELSE /\ hcur' = [hcur EXCEPT ![t] = h]
               /\ hpc' = [hpc EXCEPT ![t] = "history"]
    /\ UNCHANGED <<chatPrompts, storeMessages, hret, outbox, lastSet>>
    /\ HConfig

HReadDone(t) ==
    /\ hpc[t] = "history"
    /\ ReadDone(t)
    /\ hcur' = [hcur EXCEPT ![t].history = CallSeq(ret'.value)]
    /\ hpc' = [hpc EXCEPT ![t] = "gotHistory"]
    /\ UNCHANGED <<chatPrompts, storeMessages, updates, hret, outbox, savedAs, lastSet>>
    /\ HConfig

\* part_004:196: the prompt is read from kvStore, then from the dataStore
HGetPrompt(t) ==
    /\ hpc[t] = "gotHistory"
    /\ controller = "part_004"
    /\ getPrompt(t, hcur[t].chat)
    /\ IF pc'[t] = "idle"
       THEN /\ hcur' = [hcur EXCEPT ![t].storedPrompt =
                            StoredPrompt(ret'.prompt, chatPrompts[hcur[t].chat])]
            /\ hpc' = [hpc EXCEPT ![t] = "gotPrompt"]
       ELSE /\ hpc' = [hpc EXCEPT ![t] = "prompt"]
            /\ UNCHANGED hcur
    /\ UNCHANGED <<chatPrompts, storeMessages, updates, hret, outbox, savedAs, lastSet>>
    /\ HConfig

HGetPromptDone(t) ==
    /\ hpc[t] = "prompt"
    /\ GetPromptDone(t)
    /\ hcur' = [hcur EXCEPT ![t].storedPrompt =
                    StoredPrompt(ret'.prompt, chatPrompts[hcur[t].chat])]
    /\ hpc' = [hpc EXCEPT ![t] = "gotPrompt"]
    /\ UNCHANGED <<chatPrompts, storeMessages, updates, hret, outbox, savedAs, lastSet>>
    /\ HConfig

\* line 154, part_004:209: generateResponse is called with the context
HGenerate(t) ==
    /\ \/ hpc[t] = "gotHistory" /\ controller = "botController.deno.ts"
       \/ hpc[t] = "gotPrompt"
    /\ hcur' = [hcur EXCEPT ![t].llmCalled = TRUE]
    /\ hpc' = [hpc EXCEPT ![t] = "llm"]
    /\ UNCHANGED <<chatPrompts, storeMessages, updates, hret, outbox, savedAs, lastSet>>
    /\ UNCHANGED <<kvVars, dbVars>>
    /\ HConfig

\* lines 154-166: generateResponse returns a text or throws; either way a
\* non-empty message is sent
HGenerateDone(t) ==
    /\ hpc[t] = "llm"
    /\ hcur[t].handler = "handleTelegramUpdate"
    /\ \E llmResult \in {Generated, Apology} :
          LET h == [hcur[t] EXCEPT !.reply = llmResult]
          IN /\ outbox' = HandOver(outbox, Message(h))
             /\ hcur' = [hcur EXCEPT ![t] = h]
    /\ hpc' = [hpc EXCEPT ![t] = "send"]
    /\ UNCHANGED <<chatPrompts, storeMessages, updates, hret, savedAs, lastSet>>
    /\ UNCHANGED <<kvVars, dbVars>>
    /\ HConfig

\* lines 166-182: the send has returned (true or false, the result is not
\* looked at); the record goes to the dataStore and saveInteraction is called
HSendDone(t) ==
    /\ hpc[t] = "send"
    /\ storeMessages' = storeMessages + 1
    /\ saveInteraction(t, hcur[t].chat)
    /\ savedAs' = [savedAs EXCEPT ![hcur[t].update] = calls'[hcur[t].chat]]
    /\ IF pc'[t] = "idle"
       THEN HReturn(t, hcur[t], "returned", "memory")
       ELSE /\ hpc' = [hpc EXCEPT ![t] = "save"]
            /\ UNCHANGED <<hcur, hret>>
    /\ UNCHANGED <<chatPrompts, updates, outbox, lastSet>>
    /\ HConfig

\* saveInteraction runs on; when it returns, so does the handler
HSaveStep(t) ==
    /\ hpc[t] = "save"
    /\ IF pc'[t] = "idle"
       THEN HReturn(t, hcur[t], "returned", IF ret'.memWrote THEN "memory" ELSE "kv")
       ELSE UNCHANGED <<hpc, hcur, hret>>
    /\ UNCHANGED <<chatPrompts, storeMessages, updates, outbox, savedAs, lastSet>>
    /\ HConfig

HSaveSetDone(t) == SaveSetDone(t) /\ HSaveStep(t)
HSaveListDone(t) == SaveListDone(t) /\ HSaveStep(t)
HSaveDelDone(t) == SaveDelDone(t) /\ HSaveStep(t)

\* the process is restarted while no Supabase request is in flight: the
\* dataStore and the handlers in flight are gone
HRestart ==
    /\ \A t \in Tasks : dbpc[t] = "idle"
    /\ Restart
    /\ chatPrompts' = [c \in Chats |-> NoPrompt]
    /\ storeMessages' = 0
    /\ hpc' = [t \in Tasks |-> "idle"]
    /\ hcur' = [t \in Tasks |-> HIdle]
    /\ hret' = HNoRet
    /\ UNCHANGED <<updates, outbox, savedAs, lastSet>>
    /\ HConfig

----------------------------------------------------------------------------
(* processIncomingMessage, part_003:47-97, over db.supabase.ts *)

\* db.supabase.ts:35-50: without SUPABASE_URL or the key, getClient throws
getClient(env) == env

RECURSIVE Ascending(_)
Ascending(rows) ==
    IF rows = {} THEN << >>
    ELSE LET oldest == CHOOSE r \in rows : \A x \in rows : r.created_at <= x.created_at
         IN <<oldest.id>> \o Ascending(rows \ {oldest})

\* db.supabase.ts:177-190: the newest `limit` rows of the chat, reversed
dbGetLastMessages(rows, c, limit) ==
    Ascending({r \in rows : r.id \in SelectNewest(rows, c, limit)})

\* part_003:59-60: the history read; a throwing getClient ends in the catch
ProcessIncomingMessage(t, c) ==
    /\ Receive(t, c, "processIncomingMessage", "text")
    /\ dbpc[t] = "idle"
    /\ LET h == Locals(t, c, "processIncomingMessage", "text")
       IN IF getClient(supabaseEnv)
          THEN /\ hcur' = [hcur EXCEPT ![t] = h]
               /\ hpc' = [hpc EXCEPT ![t] = "dbHistory"]
               /\ UNCHANGED hret
          ELSE HReturn(t, [h EXCEPT !.storageFailed = TRUE], "false", "none")
    /\ UNCHANGED <<chatPrompts, storeMessages, outbox, lastSet>>
    /\ UNCHANGED <<kvVars, dbVars>>
    /\ HConfig

\* db.supabase.ts:177-190 and part_003:69: the select is answered with rows
\* or with an error (then the history is empty); getPrompt is called
PHistoryDone(t) ==
    /\ hpc[t] = "dbHistory"
    /\ \/ hcur' = [hcur EXCEPT ![t].history =
                       dbGetLastMessages(conversations, hcur[t].chat, 5)]
       \/ hcur' = [hcur EXCEPT ![t].storageFailed = TRUE]
    /\ hpc' = [hpc EXCEPT ![t] = "dbPrompt"]
    /\ UNCHANGED <<chatPrompts, storeMessages, updates, hret, outbox, savedAs, lastSet>>
    /\ UNCHANGED <<kvVars, dbVars>>
    /\ HConfig

\* db.supabase.ts:234-245 and part_003:78: the prompt or, on error, null;
\* generateResponse is called
PPromptDone(t) ==
    /\ hpc[t] = "dbPrompt"
    /\ \/ hcur' = [hcur EXCEPT ![t].storedPrompt = chat_prompts[hcur[t].chat],
                               ![t].llmCalled = TRUE]
       \/ hcur' = [hcur EXCEPT ![t].storageFailed = TRUE,
                               ![t].llmCalled = TRUE]
    /\ hpc' = [hpc EXCEPT ![t] = "llm"]
    /\ UNCHANGED <<chatPrompts, storeMessages, updates, hret, outbox, savedAs, lastSet>>
    /\ UNCHANGED <<kvVars, dbVars>>
    /\ HConfig

\* part_003:78-85: a text (or the apology for an empty one) goes to
\* sendReply; a throwing generateResponse ends in the catch
PGenerateDone(t) ==
    /\ hpc[t] = "llm"
    /\ hcur[t].handler = "processIncomingMessage"
    /\ \/ \E llmReply \in {Generated, Apology} :
             LET h == [hcur[t] EXCEPT !.reply = llmReply]
             IN /\ outbox' = HandOver(outbox, Message(h))
                /\ hcur' = [hcur EXCEPT ![t] = h]
                /\ hpc' = [hpc EXCEPT ![t] = "pSend"]
                /\ UNCHANGED hret
       \/ /\ HReturn(t, hcur[t], "false", "none")
          /\ UNCHANGED outbox
    /\ UNCHANGED <<chatPrompts, storeMessages, updates, savedAs, lastSet>>
    /\ UNCHANGED <<kvVars, dbVars>>
    /\ HConfig

\* part_003:85-88: sendReply has returned and saveConversation is called
PSendDone(t) ==
    /\ hpc[t] = "pSend"
    /\ saveConversation(t, hcur[t].chat)
    /\ hpc' = [hpc EXCEPT ![t] = "pSave"]
    /\ UNCHANGED <<chatPrompts, storeMessages, updates, hcur, hret, outbox, savedAs, lastSet>>
    /\ HConfig

\* part_003:85 and 92-95: sendReply has thrown
PSendThrew(t) ==
    /\ hpc[t] = "pSend"
    /\ HReturn(t, hcur[t], "false", "none")
    /\ UNCHANGED <<chatPrompts, storeMessages, updates, outbox, savedAs, lastSet>>
    /\ UNCHANGED <<kvVars, dbVars>>
    /\ HConfig

\* saveConversation runs on; part_003:88-95 when it returns or throws
PSaveStep(t) ==
    /\ hpc[t] = "pSave"
    /\ IF dbpc'[t] = "idle"
       THEN IF dbret'[t].outcome = "threw"
            THEN HReturn(t, hcur[t], "false", "failed")
            ELSE HReturn(t, hcur[t], "true", "db")
       ELSE UNCHANGED <<hpc, hcur, hret>>
    /\ UNCHANGED <<chatPrompts, storeMessages, updates, outbox, savedAs, lastSet>>
    /\ HConfig

PInsertDone(t) == InsertDone(t) /\ PSaveStep(t)
PSelectDone(t) == SelectDone(t) /\ PSaveStep(t)
PDeleteDone(t) == DeleteDone(t) /\ PSaveStep(t)

----------------------------------------------------------------------------
(* The webhook of index.deno.ts:109-114 hands each update to              *)
(* handleTelegramUpdate without awaiting it: two updates of one chat are   *)
(* in two activations at once                                              *)

InitWebhook == InitStored

NextWebhook ==
    \E t \in Tasks :
        \/ \E c \in SingleChat : updates < MaxWebhookUpdates /\ HandleText(t, c)
        \/ HReadDone(t)
        \/ HGenerate(t)
        \/ HGenerateDone(t)
        \/ HSendDone(t)
        \/ HSaveSetDone(t)
        \/ HSaveListDone(t)
        \/ HSaveDelDone(t)

SpecWebhook == InitWebhook /\ [][NextWebhook]_vars

----------------------------------------------------------------------------
(* Claims on SpecWebhook *)

\* the activation of task t has its history in hand
HasHistory(t) == hpc[t] \in {"gotHistory", "prompt", "gotPrompt", "llm", "send", "save"}

\* C11: a second update of a chat is not taken up by handleTelegramUpdate
\* before the sequence of the previous update has called saveInteraction and
\* returned, so the history read for update n+1 holds the record saved for
\* update n.
C11_AsClaimed ==
    \A t \in Tasks :
        (hpc[t] # "idle" /\ hcur[t].update > 1) =>
            /\ \A other \in Tasks :
                  hpc[other] # "idle" => hcur[other].update # hcur[t].update - 1
            /\ HasHistory(t) =>
                  /\ savedAs[hcur[t].update - 1] # 0
                  /\ savedAs[hcur[t].update - 1] \in Range(hcur[t].history)

----------------------------------------------------------------------------
(* One update at a time, to either Telegram controller or to the adapters  *)
(* of part_003                                                             *)

InitApp ==
    /\ InitDb
    /\ InitFn
    /\ InitHandlers
    /\ InitModule
    /\ controller \in Controllers
    /\ supabaseEnv \in BOOLEAN
    /\ chat_prompts = [c \in Chats |-> IF c = 1 THEN "X" ELSE NoPrompt]
    /\ kv = [c \in Chats |-> IF c = 1 THEN Stored(c, DEFAULT_KEEP) ELSE << >>]
    /\ kvPrompts = [c \in Chats |-> NoPrompt]
    /\ calls = [c \in Chats |-> IF c = 1 THEN DEFAULT_KEEP ELSE 0]
    /\ lastTs = [c \in Chats |-> -1]

NextApp ==
    \E t \in SeqTasks :
        \/ \E c \in SingleChat, cmd \in Commands :
              updates < MaxUpdates /\ HandleCommand(t, c, cmd)
        \/ \E c \in SingleChat : updates < MaxUpdates /\ HandleUsage(t, c)
        \/ \E c \in SingleChat, prompt \in Prompts :
              updates < MaxUpdates /\ HandleSetPrompt(t, c, prompt)
        \/ \E c \in SingleChat : updates < MaxUpdates /\ HandleText(t, c)
        \/ \E c \in SingleChat : updates < MaxUpdates /\ ProcessIncomingMessage(t, c)
        \/ HSetPromptDone(t)
        \/ HAckDone(t)
        \/ HReadDone(t)
        \/ HGetPrompt(t)
        \/ HGetPromptDone(t)
        \/ HGenerate(t)
        \/ HGenerateDone(t)
        \/ HSendDone(t)
        \/ HSaveSetDone(t)
        \/ HSaveListDone(t)
        \/ HSaveDelDone(t)
        \/ PHistoryDone(t)
        \/ PPromptDone(t)
        \/ PGenerateDone(t)
        \/ PSendDone(t)
        \/ PSendThrew(t)
        \/ PInsertDone(t)
        \/ PSelectDone(t)
        \/ PDeleteDone(t)

SpecApp == InitApp /\ [][NextApp]_vars

----------------------------------------------------------------------------
(* Claims on SpecApp *)

\* the reply to update u has been handed to the outbound send
Sent(u) == \E i \in 1..Len(outbox) : outbox[i].update = u

\* C19: in handleTelegramUpdate and in processIncomingMessage the reply is
\* handed to the send before saveInteraction, respectively saveConversation,
\* is called for the interaction, and a persistence step that fails leaves
\* the reply sent.
C19_ReplyBeforePersistence ==
    /\ \A t \in Tasks :
          \/ hpc[t] \in {"save", "pSave"}
          \/ (hpc[t] # "idle" /\ pc[t] \in {"saveSet", "saveList", "saveDel"})
          \/ (hpc[t] # "idle" /\ dbpc[t] # "idle")
          => Sent(hcur[t].update)
    /\ \A u \in 1..Len(savedAs) : savedAs[u] # 0 => Sent(u)
    /\ hret.persisted # "none" => hret.sent /\ Sent(hret.update)

\* a saveInteraction of a Telegram update has fallen back after a KV error
\* and the saveConversation of a later adapter message has thrown; both
\* replies are out
C19_Witness ==
    /\ hret.handler = "processIncomingMessage"
    /\ hret.persisted = "failed"
    /\ hret.sent
    /\ ret.kind = "save"
    /\ ret.err # NoError
    /\ Len(outbox) = 2
    /\ savedAs[1] # 0

\* C20: whatever way the storage layer fails while processIncomingMessage
\* reads the history or the prompt (query error, unreachable service, missing
\* configuration), generateResponse is still called and, unless the model
\* call or the send itself fails, the reply is sent.
C20_AsClaimed ==
    (hret.handler = "processIncomingMessage" /\ hret.storageFailed) =>
        /\ hret.llmCalled
        /\ hret.outcome = "true" => hret.sent

\* C21: no backend error during the write leaves saveInteraction or
\* saveConversation as an exception; the caller gets a returned outcome.
C21_AsClaimed ==
    /\ ret.kind = "save" => ret.outcome = "returned"
    /\ \A t \in Tasks : dbret[t].outcome # "threw"

\* C21 (as the code has it): saveInteraction returns whatever KV does, the
\* record then being in memoryFallback; saveConversation throws exactly when
\* its insert is answered with an error (no row is written), swallows the
\* errors of its prune, and what it throws makes processIncomingMessage
\* return false.
C21_OnlyInsertErrorIsThrown ==
    /\ ret.kind = "save" =>
          /\ ret.outcome = "returned"
          /\ ret.err # NoError => ret.memWrote
    /\ \A t \in Tasks :
          /\ dbret[t].outcome = "threw" =>
                /\ dbret[t].id = 0
                /\ ~dbret[t].pruneError
          /\ dbret[t].pruneError => dbret[t].outcome = "returned"
    /\ hret.persisted = "failed" => hret.outcome = "false"

\* a saveInteraction has returned after a KV error and a saveConversation
\* has thrown its insert error
C21_Witness ==
    /\ ret.kind = "save"
    /\ ret.err # NoError
    /\ ret.outcome = "returned"
    /\ \E t \in Tasks : dbret[t].outcome = "threw"

----------------------------------------------------------------------------
(* The prompt commands of part_004 and the texts that use the prompt, one  *)
(* update at a time, in a process that may be restarted                    *)

InitPrompt ==
    /\ InitDb
    /\ InitFn
    /\ InitHandlers
    /\ InitModule
    /\ controller = "part_004"
    /\ supabaseEnv = TRUE
    /\ chat_prompts = [c \in Chats |-> NoPrompt]
    /\ kv = [c \in Chats |-> << >>]
    /\ kvPrompts = [c \in Chats |-> NoPrompt]
    /\ calls = [c \in Chats |-> 0]
    /\ lastTs = [c \in Chats |-> -1]

NextPrompt ==
    \/ HRestart
    \/ \E t \in SeqTasks :
        \/ \E c \in SingleChat :
              updates < MaxPromptUpdates /\ HandleCommand(t, c, "/getprompt")
        \/ \E c \in SingleChat, prompt \in Prompts :
              updates < MaxPromptUpdates /\ HandleSetPrompt(t, c, prompt)
        \/ \E c \in SingleChat : updates < MaxPromptUpdates /\ HandleText(t, c)
        \/ HSetPromptDone(t)
        \/ HAckDone(t)
        \/ HReadDone(t)
        \/ HGetPrompt(t)
        \/ HGetPromptDone(t)
        \/ HGenerate(t)
        \/ HGenerateDone(t)
        \/ HSendDone(t)
        \/ HSaveSetDone(t)
        \/ HSaveListDone(t)

SpecPrompt == InitPrompt /\ [][NextPrompt]_vars

----------------------------------------------------------------------------
(* Claims on SpecPrompt *)

\* the text activation of task t has read the prompt it gives to the model
HasPrompt(t) ==
    /\ hcur[t].cmd = "text"
    /\ hpc[t] \in {"gotPrompt", "llm", "send", "save"}

\* C17: once /setprompt has been handled for a chat, the prompt a later text
\* of that chat is combined with is the text of the most recent /setprompt,
\* whichever of dataStore, KV and promptsFallback the writes reached.
C17_AsClaimed ==
    \A t \in Tasks :
        (HasPrompt(t) /\ lastSet[hcur[t].chat].prompt # NoPrompt) =>
            hcur[t].storedPrompt = lastSet[hcur[t].chat].prompt

\* C17 (as the code has it): ... provided the process that handled the most
\* recent /setprompt is still the running one; a restart brings back what KV
\* holds, which is an older prompt or none when the last write fell back.
C17_WithinProcess ==
    \A t \in Tasks :
        (HasPrompt(t) /\ lastSet[hcur[t].chat].prompt # NoPrompt
                      /\ lastSet[hcur[t].chat].process = restarts) =>
            hcur[t].storedPrompt = lastSet[hcur[t].chat].prompt

\* an older prompt is in KV, the most recent one only in the in-process
\* stores, and a text is combined with the most recent one
C17_Witness ==
    \E t \in Tasks :
        /\ HasPrompt(t)
        /\ lastSet[hcur[t].chat].process = restarts
        /\ kvPrompts[hcur[t].chat] = "X"
        /\ promptsFallback[hcur[t].chat] = "Y"
        /\ lastSet[hcur[t].chat].prompt = "Y"
        /\ hcur[t].storedPrompt = "Y"

\* C18: /getprompt answers "No prompt set" only if neither the dataStore nor
\* KV holds a prompt of the chat; a prompt that is in KV is reported even
\* when the dataStore has no entry.
C18_AsClaimed ==
    \A t \in Tasks :
        (/\ hpc[t] = "send"
         /\ hcur[t].cmd = "/getprompt"
         /\ hcur[t].reply = CommandReply("/getprompt", NoPrompt)) =>
            /\ chatPrompts[hcur[t].chat] = NoPrompt
            /\ kvPrompts[hcur[t].chat] = NoPrompt

----------------------------------------------------------------------------
(* The store of part_005:300-586: the same module with db.json under it.   *)
(* A record carries, next to the key parts chat and call, the chatId and   *)
(* userId fields of its value.                                             *)

Users == {1, 2}

\* part_005:378-386: the message pushed to db.chats[chatId].messages
DiskMessage(record) ==
    [id |-> record.call, userId |-> record.userId, timestamp |-> record.timestamp]

\* part_005:533-540 and 553-560: the record built from a message of db.json;
\* `Number(msg.userId) || Number(chatId)` is its chatId and its userId
FromDisk(c, msg) ==
    [chat |-> c, timestamp |-> msg.timestamp, call |-> msg.id,
     chatId |-> IF msg.userId # 0 THEN msg.userId ELSE c,
     userId |-> IF msg.userId # 0 THEN msg.userId ELSE c]

RECURSIVE Populate(_, _)
\* part_005:545-551: each record is set in KV under a fresh key; a set that
\* fails is ignored
Populate(s, recs) ==
    IF recs = << >> THEN {s}
    ELSE Populate(s, Tail(recs)) \cup
         UNION {Populate(InsertAt(s, p, Head(recs)), Tail(recs)) :
                   p \in buildKey(s, Head(recs))}

\* part_005:318-325: the content of db.json, or an empty database when the
\* file cannot be read
onDisk == [messages |-> dbJson, prompts |-> dbJsonPrompts]

loadDB == {onDisk, EmptyDB}

diskPushKeepsLast(db, c, msg) ==
    [db EXCEPT !.messages[c] = SliceNeg(Append(@, msg), DEFAULT_KEEP)]

\* part_005:380-390: `db.chats[chatId].messages.push(...)`
diskPush(db, c, msg) == [db EXCEPT !.messages[c] = Append(@, msg)]

\* part_005:358-416: the record goes to db.json first (a failed write is
\* only logged), then to KV or to memoryFallback
DiskSaveInteraction(t, c, u) ==
    /\ UNCHANGED dbVars
    /\ pc[t] = "idle"
    /\ now' \in now..Min(now + 1, MaxClock)
    /\ LET record == [chat |-> c, timestamp |-> now', call |-> calls[c] + 1,
                      chatId |-> c, userId |-> u]
       IN /\ written' = [written EXCEPT ![c] = Append(@, record)]
          /\ \/ \E db \in loadDB :
                   LET pushed == diskPush(db, c, DiskMessage(record))
                   IN /\ dbJson' = pushed.messages
                      /\ dbJsonPrompts' = pushed.prompts
                      /\ diskFailed' = (diskFailed \/ db # onDisk)
             \/ /\ UNCHANGED <<dbJson, dbJsonPrompts>>
                /\ diskFailed' = TRUE
          /\ UNCHANGED loaded
          /\ calls' = [calls EXCEPT ![c] = @ + 1]
          /\ lastTs' = [lastTs EXCEPT ![c] = now']
          /\ tsTie' = [tsTie EXCEPT ![c] = @ \/ now' <= lastTs[c]]
          /\ firstOp' = FirstOp(KvGuard(kvClient))
          /\ issued' = KvGuard(kvClient)
          /\ IF KvGuard(kvClient)
             THEN /\ pc' = [pc EXCEPT ![t] = "saveSet"]
                  /\ cur' = [cur EXCEPT ![t] = [Idle EXCEPT !.chat = c,
                                                   !.record = record]]
                  /\ UNCHANGED <<ret, memoryFallback>>
             ELSE SaveFallback(t, c, record, NoError, FALSE)
    /\ UNCHANGED <<kvRuntime, kvClient, kv, kvPrompts, promptsFallback,
                   restarts, prevDemoted>>
    /\ UNCHANGED <<fnVars, botVars>>

\* part_005:520-565: the memory cache, else the last `limit` messages of
\* db.json, which are put into memoryFallback and, if `client`, into KV
DiskFallThrough(t, c, limit, client, e) ==
    IF Len(memoryFallback[c]) > 0
    THEN /\ ReadReturn(t, c, limit, FallbackRead(memoryFallback[c], limit), e)
         /\ UNCHANGED <<kv, memoryFallback>>
    ELSE LET last == SliceNeg(dbJson[c], limit)
             recs == [i \in 1..Len(last) |-> FromDisk(c, last[i])]
         IN /\ memoryFallback' = [memoryFallback EXCEPT
                                    ![c] = SliceNeg(recs, DEFAULT_KEEP)]
            /\ IF client
               THEN \E s \in Populate(kv[c], recs) : kv' = [kv EXCEPT ![c] = s]
               ELSE UNCHANGED kv
            /\ ReadReturn(t, c, limit, recs, e)

\* part_005:498-501
DiskGetLastMessages(t, c, limit) ==
    /\ UNCHANGED dbVars
    /\ pc[t] = "idle"
    /\ firstOp' = FirstOp(KvGuard(kvClient))
    /\ issued' = KvGuard(kvClient)
    /\ IF KvGuard(kvClient)
       THEN /\ pc' = [pc EXCEPT ![t] = "diskRead"]
            /\ cur' = [cur EXCEPT ![t] = [Idle EXCEPT !.chat = c, !.limit = limit]]
            /\ UNCHANGED <<ret, kv, memoryFallback>>
       ELSE DiskFallThrough(t, c, limit, FALSE, NoError)
    /\ UNCHANGED <<kvRuntime, kvClient, kvPrompts, promptsFallback, now, calls,
                   lastTs, tsTie, restarts, prevDemoted>>
    /\ UNCHANGED appVars

\* part_005:501-518: a non-empty listing is returned; an empty one and a
\* failed one fall through
DiskReadDone(t) ==
    /\ UNCHANGED dbVars
    /\ pc[t] = "diskRead"
    /\ LET c == cur[t].chat
           limit == cur[t].limit
           items == ListPrefix(kv, c)
       IN \/ /\ Len(items) > 0
             /\ ReadReturn(t, c, limit, SliceNeg(SortAscending(items), limit), NoError)
             /\ UNCHANGED <<kvClient, kv, memoryFallback>>
          \/ /\ Len(items) = 0
             /\ DiskFallThrough(t, c, limit, kvClient, NoError)
             /\ UNCHANGED kvClient
          \/ \E e \in Errors :
                /\ kvClient' = Catch(kvClient, e)
                /\ DiskFallThrough(t, c, limit, kvClient', e)
    /\ issued' = FALSE
    /\ UNCHANGED <<kvRuntime, kvPrompts, promptsFallback, now, calls, firstOp,
                   lastTs, tsTie, restarts, prevDemoted>>
    /\ UNCHANGED appVars

\* one caller at a time over part_005, in a process that may be restarted
NextDisk ==
    \/ Restart /\ UNCHANGED appVars
    \/ \E t \in SeqTasks :
        \/ \E c \in SingleChat, u \in Users :
              calls[c] < MaxDiskSaves /\ DiskSaveInteraction(t, c, u)
        \/ SaveSetDone(t) /\ UNCHANGED appVars
        \/ SaveListDone(t) /\ UNCHANGED appVars
        \/ \E c \in SingleChat : DiskGetLastMessages(t, c, DEFAULT_KEEP)
        \/ DiskReadDone(t)

SpecDisk == InitKv /\ [][NextDisk]_vars

\* every record of r's chat that a store or a read holds
Held ==
    UNION {Range(kv[c]) \cup Range(memoryFallback[c]) : c \in Chats}
        \cup (IF ret.kind = "read" THEN Range(ret.value) ELSE {})

\* C23: a stored record never changes: whatever KV, the memory cache or a
\* read holds of a record is the record as saveInteraction wrote it, with
\* its chatId, userId and timestamp.
C23_AsClaimed == \A r \in Held : r = written[r.chat][r.call]

----------------------------------------------------------------------------
(* The prune step of either tier as a function of the stored records, *)
(* applied repeatedly to records that earlier calls have left behind   *)

\* pruneOldMessagesKV (kvStore.deno.ts:150-165) when no KV call fails
pruneOldMessagesKV(store, c, keep) ==
    Delete(store, ToDelete(ListPrefix(store, c), keep))

\* pruneOldMessages (db.supabase.ts:133-166) when no request fails
pruneOldMessages(rows, c, keep) ==
    LET keepIds == SelectNewest(rows, c, keep)
    IN IF Cardinality(keepIds) < keep THEN rows ELSE DeleteNotIn(rows, c, keepIds)

\* the listings KV can hold for chat c: n records in key order, timestamps
\* non-decreasing along the keys, ties included
Listings(c, n) ==
    {s \in [1..n -> [chat : {c}, timestamp : 0..2, call : 1..n]] :
        /\ \A i \in 1..n : s[i].call = i
        /\ \A i \in 1..(n - 1) : s[i].timestamp <= s[i + 1].timestamp}

InitPrune ==
    /\ InitModule
    /\ InitBot
    /\ \E n \in 0..MaxStored :
          /\ kv \in {[c \in Chats |-> IF c = 1 THEN s ELSE << >>] : s \in Listings(1, n)}
          /\ calls = [c \in Chats |-> IF c = 1 THEN n ELSE 0]
    /\ kvPrompts = [c \in Chats |-> NoPrompt]
    /\ lastTs = [c \in Chats |-> -1]
    /\ \E n \in 0..MaxStored :
          /\ conversations = StoredRows(1, n)
          /\ inserted = n
    /\ dbpc = [t \in Tasks |-> "idle"]
    /\ dbcur = [t \in Tasks |-> DbIdle]
    /\ dbret = [t \in Tasks |-> DbNoRet]
    /\ InitDisk
    /\ input \in [keep : 1..MaxKeep]
    /\ output = [kv |-> << >>, db |-> << >>]

\* each application records the store before and after it
PruneKV ==
    /\ Len(output.kv) < MaxPrunes
    /\ kv' = pruneOldMessagesKV(kv, 1, input.keep)
    /\ output' = [output EXCEPT !.kv = Append(@, [before |-> kv[1], after |-> kv'[1]])]
    /\ UNCHANGED <<kvRuntime, kvClient, kvPrompts, memoryFallback, promptsFallback,
                   now, calls, pc, cur, ret, issued, firstOp, lastTs, tsTie,
                   restarts, prevDemoted, dbVars, input, botVars, diskVars>>

PruneDb ==
    /\ Len(output.db) < MaxPrunes
    /\ conversations' = pruneOldMessages(conversations, 1, input.keep)
    /\ output' = [output EXCEPT !.db = Append(@, [before |-> conversations,
                                                   after |-> conversations'])]
    /\ UNCHANGED <<kvVars, inserted, dbpc, dbcur, dbret, input, botVars, diskVars>>

NextPrune == PruneKV \/ PruneDb

SpecPrune == InitPrune /\ [][NextPrune]_vars

----------------------------------------------------------------------------
(* The context string handed to generateResponse, as a function of the    *)
(* history, the stored prompt and the incoming text.  A text is the        *)
(* sequence of its lines; the context is the sequence of the lines of      *)
(* contextParts.join("\n"), each with the prefix it starts with, if any.   *)

NoText == << >>

\* `${prefix}: ${text}`: only the first line of the text follows the prefix
Prefixed(prefix, text) ==
    [i \in 1..Len(text) |-> [prefix |-> IF i = 1 THEN prefix ELSE "",
                             body |-> text[i]]]

RECURSIVE HistoryLinesAssistantFirst(_)
HistoryLinesAssistantFirst(history) ==
    IF history = << >> THEN << >>
    ELSE LET item == history[Len(history)]
         IN HistoryLinesAssistantFirst(SubSeq(history, 1, Len(history) - 1))
                \o Prefixed("Assistant", item.botReply)
                \o Prefixed("User", item.userMessage)

RECURSIVE HistoryLines(_)
\* the loop over history: push `User: ...`, then `Assistant: ...`
HistoryLines(history) ==
    IF history = << >> THEN << >>
    ELSE LET item == history[Len(history)]
         IN HistoryLines(SubSeq(history, 1, Len(history) - 1))
                \o Prefixed("User", item.userMessage)
                \o Prefixed("Assistant", item.botReply)

\* botController.deno.ts:140-150
contextString(history, userText) ==
    HistoryLines(history) \o Prefixed("User", userText)

\* part_003:63-76 and part_004:184-204: the stored prompt, when there is
\* one, is put in front of the text inside the same `User:` entry
combinedUserMessage(storedPrompt, messageText) ==
    IF storedPrompt # NoText THEN storedPrompt \o messageText ELSE messageText

contextWithPrompt(history, storedPrompt, messageText) ==
    HistoryLines(history)
        \o Prefixed("User", combinedUserMessage(storedPrompt, messageText))

\* db.supabase.ts:197-205
buildLLMContext(messages) ==
    IF Len(messages) = 0 THEN << >> ELSE HistoryLines(messages)

\* a text of n lines; who wrote it and where it stands tell the lines apart
TextOf(who, i, n) == [k \in 1..n |-> <<who, i, k>>]

Histories ==
    UNION {{[i \in 1..n |-> [userMessage |-> TextOf("user", i, um[i]),
                             botReply |-> TextOf("bot", i, br[i])]] :
                um \in [1..n -> 1..MaxLines], br \in [1..n -> 1..MaxLines]} :
           n \in 0..MaxHistory}

InitContext ==
    /\ InitDb
    /\ InitBot
    /\ InitModule
    /\ kv = [c \in Chats |-> << >>]
    /\ kvPrompts = [c \in Chats |-> NoPrompt]
    /\ calls = [c \in Chats |-> 0]
    /\ lastTs = [c \in Chats |-> -1]
    /\ kvRuntime = "present"
    /\ InitDisk
    /\ input \in [history : Histories,
                  storedPrompt : {TextOf("prompt", 0, n) : n \in 0..MaxLines},
                  userText : {TextOf("new", 0, n) : n \in 1..MaxLines}]
    /\ output = << >>

ContextFrame == UNCHANGED <<kvVars, dbVars, input, botVars, diskVars>>

\* handleTelegramUpdate of botController.deno.ts builds its context
BuildContext ==
    /\ output = << >>
    /\ output' = <<[by |-> "handleTelegramUpdate", prompt |-> NoText,
                    lines |-> contextString(input.history, input.userText)]>>
    /\ ContextFrame

\* processIncomingMessage, and the handleTelegramUpdate that knows prompts
BuildContextWithPrompt ==
    /\ output = << >>
    /\ output' = <<[by |-> "processIncomingMessage", prompt |-> input.storedPrompt,
                    lines |-> contextWithPrompt(input.history, input.storedPrompt,
                                                input.userText)]>>
    /\ ContextFrame

BuildLLMContext ==
    /\ output = << >>
    /\ output' = <<[by |-> "buildLLMContext", prompt |-> NoText,
                    lines |-> buildLLMContext(input.history)]>>
    /\ ContextFrame

NextContext == BuildContext \/ BuildContextWithPrompt \/ BuildLLMContext

SpecContext == InitContext /\ [][NextContext]_vars

----------------------------------------------------------------------------
(* The admin snapshot as a function of what the backend holds:             *)
(* getFullDB, kvStore.deno.ts:201-229, and getAdminStats,                  *)
(* db.supabase.ts:308-351                                                  *)

RECURSIVE SumOver(_, _)
SumOver(f, S) ==
    IF S = {} THEN 0
    ELSE LET x == CHOOSE y \in S : TRUE IN f[x] + SumOver(f, S \ {x})

\* kvStore.deno.ts:201-229: chatsMap has a chat once a record of it is listed
FullDB(items, prompts) ==
    [totalMessages |-> SumOver([c \in Chats |-> Len(items[c])], Chats),
     totalChats |-> Cardinality({c \in Chats : Len(items[c]) > 0}),
     chats |-> FullDBView(items, prompts)]

\* db.supabase.ts:322-336: `msgs.slice(-5)` of the rows in created_at order
RecentRowsNewestFirst(rows, c) ==
    LET asc == SliceNeg(Ascending(RowsOf(rows, c)), 5)
    IN [i \in 1..Len(asc) |-> asc[Len(asc) + 1 - i]]
RecentRows(rows, c) == SliceNeg(Ascending(RowsOf(rows, c)), 5)

\* db.supabase.ts:308-351: chatGroups has a chat once a row of it is selected
AdminStats(rows, prompts) ==
    [totalMessages |-> Cardinality(rows),
     totalChats |-> Cardinality({r.chat_id : r \in rows}),
     chats |-> [c \in {r.chat_id : r \in rows} |->
                  [prompt |-> prompts[c],
                   totalMessages |-> Cardinality(RowsOf(rows, c)),
                   recentMessages |-> RecentRows(rows, c)]]]

\* what chat 1 can hold: short listings with timestamp ties, longer ones
\* (left by failed prunes) without
SnapshotListings ==
    UNION {Listings(1, n) : n \in 0..MaxStored}
        \cup {Stored(1, n) : n \in (MaxStored + 1)..MaxSnapshot}

InitSnapshot ==
    /\ InitModule
    /\ InitBot
    /\ InitDisk
    /\ kvRuntime = "present"
    /\ kv = [c \in Chats |-> << >>]
    /\ kvPrompts = [c \in Chats |-> NoPrompt]
    /\ calls = [c \in Chats |-> 0]
    /\ lastTs = [c \in Chats |-> -1]
    /\ conversations = {}
    /\ inserted = 0
    /\ dbpc = [t \in Tasks |-> "idle"]
    /\ dbcur = [t \in Tasks |-> DbIdle]
    /\ dbret = [t \in Tasks |-> DbNoRet]
    /\ input \in [items : {[c \in Chats |-> IF c = 1 THEN s ELSE << >>] :
                              s \in SnapshotListings},
                  rows : {StoredRows(1, n) : n \in 0..MaxSnapshotRows},
                  prompts : [Chats -> {NoPrompt, "X"}]]
    /\ output = << >>

SnapshotFrame == UNCHANGED <<kvVars, dbVars, input, botVars, diskVars>>

Applied(fn) == \E i \in 1..Len(output) : output[i].fn = fn

ApplyGetFullDB ==
    /\ ~Applied("getFullDB")
    /\ output' = Append(output, [fn |-> "getFullDB",
                                 stats |-> FullDB(input.items, input.prompts)])
    /\ SnapshotFrame

ApplyGetAdminStats ==
    /\ ~Applied("getAdminStats")
    /\ output' = Append(output, [fn |-> "getAdminStats",
                                 stats |-> AdminStats(input.rows, input.prompts)])
    /\ SnapshotFrame

NextSnapshot == ApplyGetFullDB \/ ApplyGetAdminStats

SpecSnapshot == InitSnapshot /\ [][NextSnapshot]_vars

----------------------------------------------------------------------------
(* Claims on SpecSnapshot *)

\* the timestamp of the listed record with this call number
TsOf(items, call) == (CHOOSE r \in Range(items) : r.call = call).timestamp

\* `recent` lists min(cap, Len(items)) records of items, none older than a
\* record left out, running newest first or oldest first
ListsRecent(recent, items, cap, newestFirst) ==
    /\ Len(recent) = Min(cap, Len(items))
    /\ Range(recent) \subseteq CallsOf(items)
    /\ \A i, j \in 1..Len(recent) : i < j =>
          /\ recent[i] # recent[j]
          /\ IF newestFirst
             THEN TsOf(items, recent[i]) >= TsOf(items, recent[j])
             ELSE TsOf(items, recent[i]) <= TsOf(items, recent[j])
    /\ \A r \in Range(items) : r.call \notin Range(recent) =>
          \A i \in 1..Len(recent) : r.timestamp <= TsOf(items, recent[i])

\* the rows of the table as listed records
AsItems(rows) ==
    LET asc == Ascending(rows)
    IN [i \in 1..Len(asc) |-> [chat |-> 1, timestamp |-> asc[i], call |-> asc[i]]]

\* every entry of a snapshot has the chat's prompt, its record count and
\* its `cap` most recent records in the given order
EntriesList(capKV, capDb, newestFirst) ==
    \A i \in 1..Len(output) :
        \A c \in DOMAIN output[i].stats.chats :
            LET entry == output[i].stats.chats[c]
                items == IF output[i].fn = "getFullDB"
                         THEN input.items[c]
                         ELSE AsItems(RowsOf(input.rows, c))
                cap == IF output[i].fn = "getFullDB" THEN capKV ELSE capDb
            IN /\ entry.prompt = input.prompts[c]
               /\ entry.totalMessages = Len(items)
               /\ ListsRecent(entry.recentMessages, items, cap, newestFirst)

\* C24: the snapshot maps each conversation to its prompt, its record count
\* and its up to 10 most recent records, newest first.
C24_AsClaimed == EntriesList(10, 10, TRUE)

\* C24 (as the code has it): ... its most recent records, up to 10 from
\* getFullDB and up to 5 from getAdminStats, oldest first.
C24_RecentOldestFirst == EntriesList(10, 5, FALSE)

\* both snapshots were taken of a chat with more records than they list
C24_Witness ==
    /\ Applied("getFullDB")
    /\ Applied("getAdminStats")
    /\ Len(input.items[1]) > 10
    /\ Cardinality(input.rows) > 5
    /\ input.prompts[1] = "X"


\* the conversations the backend of a snapshot knows: a record or a prompt
Known(fn) ==
    {c \in Chats :
        \/ input.prompts[c] # NoPrompt
        \/ IF fn = "getFullDB" THEN Len(input.items[c]) > 0
                               ELSE RowsOf(input.rows, c) # {}}

\* C26: the snapshot has an entry for every conversation the backend knows;
\* one with a prompt and no record appears with its prompt and a count of 0
\* and is counted in totalChats.
C26_AsClaimed ==
    \A i \in 1..Len(output) :
        LET stats == output[i].stats
        IN /\ stats.totalChats = Cardinality(Known(output[i].fn))
           /\ \A c \in Known(output[i].fn) :
                 /\ c \in DOMAIN stats.chats
                 /\ stats.chats[c].prompt = input.prompts[c]

----------------------------------------------------------------------------
(* getAdminStats after saveConversation calls made one after another,      *)
(* db.supabase.ts:102-166 and 267-351                                      *)

\* db.supabase.ts:286-305: a failed select of the conversations is thrown,
\* a failed select of the prompts leaves the prompt map empty
getAdminStats(t) ==
    /\ dbpc[t] = "idle"
    /\ getClient(supabaseEnv)
    /\ \/ output' = <<[outcome |-> "returned",
                       stats |-> AdminStats(conversations, chat_prompts)]>>
       \/ output' = <<[outcome |-> "returned",
                       stats |-> AdminStats(conversations,
                                            [c \in Chats |-> NoPrompt])]>>
       \/ output' = <<[outcome |-> "threw", stats |-> AdminStats({}, chat_prompts)]>>
    /\ UNCHANGED <<kvVars, dbVars, input, botVars, diskVars>>

InitAdmin ==
    /\ InitModule
    /\ InitBot
    /\ InitFn
    /\ kvRuntime = "present"
    /\ kv = [c \in Chats |-> << >>]
    /\ kvPrompts = [c \in Chats |-> NoPrompt]
    /\ calls = [c \in Chats |-> 0]
    /\ lastTs = [c \in Chats |-> -1]
    /\ conversations = {}
    /\ inserted = 0
    /\ dbpc = [t \in Tasks |-> "idle"]
    /\ dbcur = [t \in Tasks |-> DbIdle]
    /\ dbret = [t \in Tasks |-> DbNoRet]

NextAdmin ==
    \E t \in SeqTasks :
        \/ \E c \in Chats :
              inserted < MaxAdminInserts /\ saveConversation(t, c) /\ UNCHANGED appVars
        \/ InsertDone(t) /\ UNCHANGED appVars
        \/ SelectDone(t) /\ UNCHANGED appVars
        \/ DeleteDone(t) /\ UNCHANGED appVars
        \/ getAdminStats(t)

SpecAdmin == InitAdmin /\ [][NextAdmin]_vars

----------------------------------------------------------------------------
(* Claims on SpecAdmin *)

\* getAdminStats has just returned a snapshot
Snapshot == output' # output /\ output'[1].outcome = "returned"

----------------------------------------------------------------------------
(* Claims checked under SpecSeq *)

\* the tags of the last min(n, k) of n calls, oldest first
LastCalls(n, k) == [i \in 1..Min(n, k) |-> n - Min(n, k) + i]

ReadReturned == ret.kind = "read" /\ \A t \in Tasks : pc[t] = "idle"
SaveReturned == ret.kind = "save" /\ \A t \in Tasks : pc[t] = "idle"
Demoted == ModuleInit(kvRuntime) /\ ~kvClient

C3_SaveSurvivesKvFailure ==
    (SaveReturned /\ Demoted) =>
        LET arr == memoryFallback[ret.chat]
        IN /\ ret.outcome = "returned"
           /\ Len(arr) > 0
           /\ arr[Len(arr)].call = ret.call

C3_Witness ==
    /\ SaveReturned
    /\ Demoted
    /\ ret.err = NoError
    /\ ~ret.kvWrote
    /\ Len(memoryFallback[ret.chat]) = DEFAULT_KEEP
    /\ memoryFallback[ret.chat][DEFAULT_KEEP].call = ret.call

C15_AsClaimed ==
    [][\A t \in SeqTasks :
          (pc[t] = "saveList" /\ pc'[t] = "saveDel")
          => LET listed == ListPrefix(kv, cur[t].chat)
             IN cur'[t].del =
                    KeysOf(SubSeq(listed, 1, Len(listed) - DEFAULT_KEEP))]_vars

----------------------------------------------------------------------------
(* Claims checked under Spec *)

\* task t completes its call in this step, after a KV failure of class e
Failed(t, e) == pc[t] # "idle" /\ pc'[t] = "idle" /\ ret'.err = e

\* C4: once kvClient is null it stays null for the rest of the process, and
\* no step of saveInteraction, getLastMessages, setPrompt, getPrompt,
\* clearPrompt or getFullDB issues a KV operation while it is null.
C4_LatchIsOneWay == [][~kvClient => (~kvClient' /\ ~issued')]_vars

C4_Witness ==
    /\ Demoted
    /\ ret.kind = "save"
    /\ ret.err = NoError
    /\ ret.call \in CallsOf(kv[ret.chat])
    /\ ret.call \in CallsOf(memoryFallback[ret.chat])

C22_ReadsNeverThrow ==
    /\ ret.kind = "read" =>
          /\ ret.outcome = "returned"
          /\ Len(ret.value) <= DEFAULT_KEEP
    /\ ret.kind = "getPrompt" =>
          /\ ret.outcome = "returned"
          /\ ret.prompt \in Prompts \cup {NoPrompt}
    /\ ret.kind = "getFullDB" =>
          /\ ret.outcome \in {"view", "null"}
          /\ ret.outcome = "null" => ret.view = << >>

\* a getLastMessages whose listing failed has returned from memoryFallback
C22_Witness ==
    /\ ret.kind = "read"
    /\ ret.err # NoError
    /\ ret.outcome = "returned"
    /\ ~kvClient

----------------------------------------------------------------------------
(* Claims checked under SpecRestart *)

\* C6: after a restart, whenever the KV runtime is present, the first store
\* operation of the new process is attempted on KV -- also when the previous
\* process had demoted to the in-memory fallback.
C6_RestartRetriesKv ==
    (restarts > 0 /\ kvRuntime = "present" /\ firstOp # "none") => firstOp = "kv"

C6_Witness ==
    /\ restarts > 0
    /\ prevDemoted
    /\ kvRuntime = "present"
    /\ firstOp = "kv"

\* the getPrompt call of chat c completes in this step
GetPromptReturns(c) ==
    /\ \E t \in SeqTasks : pc[t] \in {"idle", "getPrompt"} /\ pc'[t] = "idle"
    /\ ret' # ret
    /\ ret'.kind = "getPrompt"
    /\ ret'.chat = c

----------------------------------------------------------------------------
(* Claims checked under SpecPair *)

\* the read that completed last was of chat c, whose caller has started
\* nothing since
ReadOf(c) == ret.kind = "read" /\ ret.chat = c /\ pc[c] = "idle"

----------------------------------------------------------------------------
(* Claims checked under SpecDb *)

\* task t's saveConversation returns in this step without throwing
DbReturns(t) ==
    dbpc[t] # "idle" /\ dbpc'[t] = "idle" /\ dbret'[t].outcome = "returned"

C9_AsClaimed ==
    \A t \in Tasks :
        (/\ \A u \in Tasks : dbpc[u] = "idle" /\ dbret[u].outcome = "returned"
         /\ dbret[1].chat_id = dbret[2].chat_id)
        => \/ \E r \in conversations : r.id = dbret[t].id
           \/ Cardinality({r \in RowsOf(conversations, dbret[t].chat_id) :
                              r.created_at > dbret[t].id}) >= DEFAULT_KEEP

----------------------------------------------------------------------------
(* Claims checked under SpecLimit *)

\* C13 (as claimed): for every limit >= 0, limit = 0 included,
\* getLastMessages(chatId, limit) returns at most limit records, all records
\* when fewer than limit are stored, and the empty sequence when none are.
C13_AsClaimed ==
    ReadReturned =>
        /\ Len(ret.value) <= ret.limit
        /\ calls[ret.chat] = 0 => ret.value = << >>
        /\ (ret.err = NoError /\ calls[ret.chat] < ret.limit)
              => Len(ret.value) = calls[ret.chat]

----------------------------------------------------------------------------
(* Claims checked under SpecPrune *)

\* C14: in either tier, a prune that follows a prune with the same keep
\* retains what the first one retained, and a prune of a chat that holds at
\* most keep records deletes nothing.
C14_PruneIdempotent ==
    /\ \A i \in 1..Len(output.kv) :
          /\ i > 1 => output.kv[i].after = output.kv[i - 1].after
          /\ Len(output.kv[i].before) <= input.keep
                => output.kv[i].after = output.kv[i].before
    /\ \A i \in 1..Len(output.db) :
          /\ i > 1 => output.db[i].after = output.db[i - 1].after
          /\ Cardinality(output.db[i].before) <= input.keep
                => output.db[i].after = output.db[i].before

C14_Witness ==
    /\ Len(output.kv) = 2
    /\ Len(output.db) = 2
    /\ Len(output.kv[1].before) = input.keep + 1
    /\ Len(output.kv[2].after) = input.keep
    /\ output.kv[1].before[1].timestamp = output.kv[1].before[2].timestamp
    /\ Cardinality(output.db[1].before) > input.keep
    /\ Cardinality(output.db[2].after) = input.keep

----------------------------------------------------------------------------
(* Claims checked under SpecContext *)

\* per record, in history order: its `User:` line, then its `Assistant:` line
TwoLinesEach(history) ==
    [k \in 1..(2 * Len(history)) |->
        IF k % 2 = 1
        THEN [prefix |-> "User", body |-> history[(k + 1) \div 2].userMessage[1]]
        ELSE [prefix |-> "Assistant", body |-> history[k \div 2].botReply[1]]]

StartsEntry(line) == line.prefix # ""

RECURSIVE LinesIn(_)
LinesIn(history) ==
    IF history = << >> THEN 0
    ELSE LinesIn(SubSeq(history, 1, Len(history) - 1))
            + Len(history[Len(history)].userMessage)
            + Len(history[Len(history)].botReply)

----------------------------------------------------------------------------
(* Texts as strings of characters, and llmService.deno.ts.  A character is *)
(* a white space or not; String.prototype.trim removes the white space at  *)
(* both ends.                                                               *)

MaxText == 2

Chars == {" ", "a"}

Strings == UNION {[1..n -> Chars] : n \in 0..MaxText}

IsSpace(ch) == ch = " "

\* `!text`: the empty string is falsy, every other string is truthy
Truthy(text) == Len(text) > 0

RECURSIVE trimStart(_)
trimStart(text) ==
    IF Len(text) > 0 /\ IsSpace(Head(text)) THEN trimStart(Tail(text)) ELSE text

RECURSIVE trimEnd(_)
trimEnd(text) ==
    IF Len(text) > 0 /\ IsSpace(text[Len(text)])
    THEN trimEnd(SubSeq(text, 1, Len(text) - 1))
    ELSE text

trim(text) == trimEnd(trimStart(text))

\* what a call returns: a string, or it threw
Returned(text) == [threw |-> FALSE, text |-> text]
Threw == [threw |-> TRUE, text |-> << >>]

\* llmService.deno.ts:107
LaterApology == <<"S", "o", "r", "r", "y", ",", " ", "l", "a", "t", "e", "r">>

\* what a provider's API does with one request: the key is missing, the
\* fetch rejects, the status is an error, or the body carries a content,
\* which may be missing
ProviderOutcomes ==
    {[kind |-> k, present |-> FALSE, content |-> << >>] :
        k \in {"noKey", "network", "httpError", "ok"}}
      \cup {[kind |-> "ok", present |-> TRUE, content |-> c] : c \in Strings}

\* callGroq and callGemini, lines 12-87: every outcome but a content with a
\* character that is not white space is thrown
callProvider(res) ==
    IF res.kind # "ok" THEN Threw
    ELSE IF ~res.present \/ ~Truthy(res.content) \/ ~Truthy(trim(res.content))
         THEN Threw
         ELSE Returned(trim(res.content))

callGroq(res) == callProvider(res)
callGemini(res) == callProvider(res)

generateResponseNoFallback(groq, gemini) ==
    IF ~callGroq(groq).threw THEN callGroq(groq) ELSE callGemini(gemini)

\* lines 91-109
generateResponse(groq, gemini) ==
    IF ~callGroq(groq).threw THEN callGroq(groq)
    ELSE IF ~callGemini(gemini).threw THEN callGemini(gemini)
         ELSE Returned(LaterApology)

InitNoStore ==
    /\ InitModule
    /\ InitBot
    /\ InitDisk
    /\ kvRuntime = "present"
    /\ kv = [c \in Chats |-> << >>]
    /\ kvPrompts = [c \in Chats |-> NoPrompt]
    /\ calls = [c \in Chats |-> 0]
    /\ lastTs = [c \in Chats |-> -1]
    /\ conversations = {}
    /\ inserted = 0
    /\ dbpc = [t \in Tasks |-> "idle"]
    /\ dbcur = [t \in Tasks |-> DbIdle]
    /\ dbret = [t \in Tasks |-> DbNoRet]

InitLlm ==
    /\ InitNoStore
    /\ input \in [groq : ProviderOutcomes, gemini : ProviderOutcomes]
    /\ output = << >>

ApplyGenerateResponse ==
    /\ Len(output) = 0
    /\ output' = <<generateResponse(input.groq, input.gemini)>>
    /\ UNCHANGED <<kvVars, dbVars, input, botVars, diskVars>>

NextLlm == ApplyGenerateResponse

SpecLlm == InitLlm /\ [][NextLlm]_vars

----------------------------------------------------------------------------
(* Claims on SpecLlm *)

\* C29: generateResponse never throws and always returns a non-empty string,
\* whatever the Groq call and the Gemini call do: a text, an HTTP error, an
\* empty or white-space text, a missing API key, a network exception.
C29_NeverThrowsNeverEmpty ==
    \A k \in 1..Len(output) :
        /\ ~output[k].threw
        /\ Len(output[k].text) > 0
        /\ Len(trim(output[k].text)) > 0

\* both providers fail, one with a white-space text and one with no key
C29_Witness ==
    /\ Len(output) = 1
    /\ input.groq.kind = "ok" /\ input.groq.present
    /\ Len(input.groq.content) > 0 /\ trim(input.groq.content) = << >>
    /\ input.gemini.kind = "noKey"
    /\ output[1] = Returned(LaterApology)

----------------------------------------------------------------------------
(* The texts of handleTelegramUpdate, botController.deno.ts:70-185, and of *)
(* processIncomingMessage, part_003:47-96: what is sent, what goes to the  *)
(* dataStore and what is handed to saveInteraction or saveConversation.     *)

StartText == <<"/", "s", "t", "a", "r", "t">>
HelpText == <<"/", "h", "e", "l", "p">>

\* lines 92 and 113
WelcomeMessage == <<"H", "e", "l", "l", "o">>
HelpMessage == <<"B", "o", "t", " ", "C", "o", "m", "m", "a", "n", "d", "s">>

\* lines 157 and 163, part_003:83
ShortlyApology == <<"S", "o", "r", "r", "y", ",", " ", "s", "h", "o", "r", "t", "l", "y">>

\* update.message: without a text, or with one
TextMessages ==
    {[present |-> FALSE, text |-> << >>]}
      \cup {[present |-> TRUE, text |-> x] :
                x \in Strings \cup {StartText, <<" ">> \o StartText, HelpText}}

\* what the awaited generateResponse does in its caller
LlmOutcomes == {Threw} \cup {Returned(x) : x \in Strings}

\* what the awaited send does: sendTelegramMessage resolves to true or
\* false, a sendReply may also throw
SendOutcomes == {"true", "false", "threw"}

safeMessageUnchecked(llmResult) == llmResult

\* lines 161-163, part_003:81-83
safeMessage(llmResult) ==
    IF Truthy(llmResult) /\ Truthy(trim(llmResult))
    THEN trim(llmResult)
    ELSE ShortlyApology

\* kvStore.deno.ts:51-58
ChatMemoryRecord(userMessage, botReply) ==
    [userMessage |-> userMessage, botReply |-> botReply]

\* botController.deno.ts:168-176
MessageRecord(text, response) == [text |-> text, response |-> response]

\* the handler sent `reply` and stored the interaction
Answered(by, text, reply) ==
    [by |-> by, outcome |-> "returned", sent |-> <<reply>>,
     records |-> IF by = "handleTelegramUpdate"
                 THEN <<MessageRecord(text, reply)>> ELSE << >>,
     saved |-> <<ChatMemoryRecord(text, reply)>>]

\* the handler ended before it stored anything
Ended(by, outcome, sent) ==
    [by |-> by, outcome |-> outcome, sent |-> sent, records |-> << >>,
     saved |-> << >>]

\* botController.deno.ts:70-185
handleTelegramUpdateTexts(message, llm) ==
    IF ~message.present \/ ~Truthy(message.text)
    THEN Ended("handleTelegramUpdate", "skipped", << >>)
    ELSE LET userText == trim(message.text)
             llmResult == IF llm.threw THEN ShortlyApology ELSE llm.text
         IN IF userText = StartText
            THEN Answered("handleTelegramUpdate", userText, WelcomeMessage)
            ELSE IF userText = HelpText
            THEN Answered("handleTelegramUpdate", userText, HelpMessage)
            ELSE Answered("handleTelegramUpdate", userText, safeMessage(llmResult))

\* part_003:58-96
processIncomingMessageTexts(messageText, llm, send) ==
    IF llm.threw
    THEN Ended("processIncomingMessage", "false", << >>)
    ELSE IF send = "threw"
    THEN Ended("processIncomingMessage", "false", <<safeMessage(llm.text)>>)
    ELSE Answered("processIncomingMessage", messageText, safeMessage(llm.text))

InitText ==
    /\ InitNoStore
    /\ input \in [message : TextMessages, llm : LlmOutcomes, send : SendOutcomes]
    /\ output = << >>

TextFrame == UNCHANGED <<kvVars, dbVars, input, botVars, diskVars>>

Handled(by) == \E k \in 1..Len(output) : output[k].by = by

ApplyHandleTelegramUpdate ==
    /\ ~Handled("handleTelegramUpdate")
    /\ input.send # "threw"
    /\ output' = Append(output, handleTelegramUpdateTexts(input.message, input.llm))
    /\ TextFrame

ApplyProcessIncomingMessage ==
    /\ ~Handled("processIncomingMessage")
    /\ input.message.present
    /\ output' = Append(output, processIncomingMessageTexts(input.message.text,
                                                            input.llm, input.send))
    /\ TextFrame

NextText ==
    \/ ApplyHandleTelegramUpdate
    \/ ApplyProcessIncomingMessage

SpecText == InitText /\ [][NextText]_vars

----------------------------------------------------------------------------
(* Claims on SpecText *)

\* C27: every record a handler persists has a reply text with at least one
\* character, and that text is the text that was sent, whether the language
\* model returned a reply, an empty or white-space reply, or threw.
C27_ReplyPersistedIsReplySent ==
    \A k \in 1..Len(output) :
        /\ \A i \in 1..Len(output[k].saved) :
              /\ Len(output[k].saved[i].botReply) > 0
              /\ output[k].sent = <<output[k].saved[i].botReply>>
        /\ \A i \in 1..Len(output[k].records) :
              /\ Len(output[k].records[i].response) > 0
              /\ output[k].sent = <<output[k].records[i].response>>

\* a white-space reply from the model: the apology is sent and persisted
C27_Witness ==
    /\ Handled("handleTelegramUpdate")
    /\ ~input.llm.threw
    /\ Len(input.llm.text) > 0
    /\ trim(input.llm.text) = << >>
    /\ \E k \in 1..Len(output) :
          /\ output[k].by = "handleTelegramUpdate"
          /\ output[k].sent = <<ShortlyApology>>
          /\ output[k].saved = <<ChatMemoryRecord(<<"a">>, ShortlyApology)>>

\* C28: every record handleTelegramUpdate persists has a user text with at
\* least one character, for every update whose message text is a non-empty
\* string, white-space texts included.
C28_AsClaimed ==
    \A k \in 1..Len(output) :
        (/\ output[k].by = "handleTelegramUpdate"
         /\ input.message.present
         /\ Len(input.message.text) > 0)
        => \A i \in 1..Len(output[k].saved) :
              Len(output[k].saved[i].userMessage) > 0

----------------------------------------------------------------------------
(* /setprompt among the text messages of two chats, part_004:131-151.  The *)
(* second chat has a history and a prompt in Deno KV from an earlier       *)
(* process.                                                                 *)

MaxSetPromptUpdates == 3

InitSetPrompt ==
    /\ InitDb
    /\ InitFn
    /\ InitHandlers
    /\ InitModule
    /\ controller = "part_004"
    /\ supabaseEnv = TRUE
    /\ chat_prompts = [c \in Chats |-> NoPrompt]
    /\ kv = [c \in Chats |-> IF c = 2 THEN Stored(c, DEFAULT_KEEP) ELSE << >>]
    /\ kvPrompts = [c \in Chats |-> IF c = 2 THEN "Y" ELSE NoPrompt]
    /\ calls = [c \in Chats |-> IF c = 2 THEN DEFAULT_KEEP ELSE 0]
    /\ lastTs = [c \in Chats |-> -1]

NextSetPrompt ==
    \E t \in SeqTasks :
        \/ \E c \in Chats : updates < MaxSetPromptUpdates /\ HandleUsage(t, c)
        \/ \E c \in Chats, prompt \in Prompts :
              updates < MaxSetPromptUpdates /\ HandleSetPrompt(t, c, prompt)
        \/ \E c \in Chats : updates < MaxSetPromptUpdates /\ HandleText(t, c)
        \/ HSetPromptDone(t)
        \/ HAckDone(t)
        \/ HReadDone(t)
        \/ HGetPrompt(t)
        \/ HGetPromptDone(t)
        \/ HGenerate(t)
        \/ HGenerateDone(t)
        \/ HSendDone(t)
        \/ HSaveSetDone(t)
        \/ HSaveListDone(t)
        \/ HSaveDelDone(t)

SpecSetPrompt == InitSetPrompt /\ [][NextSetPrompt]_vars

----------------------------------------------------------------------------
(* Claims on SpecSetPrompt *)

\* a step of the handler of a /setprompt update of chat c
SetPromptStep(c) ==
    \E t \in Tasks :
        /\ <<hpc[t], hcur[t]>> # <<hpc'[t], hcur'[t]>>
        /\ \/ hcur[t].cmd = "/setprompt" /\ hcur[t].chat = c
           \/ hcur'[t].cmd = "/setprompt" /\ hcur'[t].chat = c

\* no handler of a /setprompt update is at, or has been through, the call of
\* the language model
NoModelCall ==
    \A t \in Tasks :
        hcur'[t].cmd = "/setprompt" => ~hcur'[t].llmCalled /\ hpc'[t] # "llm"

\* no record is added to or removed from a history store
HistoriesUnchanged ==
    /\ kv' = kv
    /\ memoryFallback' = memoryFallback
    /\ storeMessages' = storeMessages
    /\ conversations' = conversations
    /\ dbJson' = dbJson
    /\ calls' = calls

\* the prompts of the chats other than c are as they were
OtherPromptsUnchanged(c) ==
    \A d \in Chats \ {c} :
        /\ chatPrompts'[d] = chatPrompts[d]
        /\ kvPrompts'[d] = kvPrompts[d]
        /\ promptsFallback'[d] = promptsFallback[d]
        /\ chat_prompts'[d] = chat_prompts[d]

\* C30: handling /setprompt never calls the language model and appends no
\* record to a history store; all it changes is the stored prompt of that
\* chat, and the prompts and histories of the other chats stay as they were.
C30_AsClaimed ==
    [][\A c \in Chats :
          SetPromptStep(c) =>
              /\ NoModelCall
              /\ HistoriesUnchanged
              /\ OtherPromptsUnchanged(c)
              /\ kvClient' = kvClient]_vars

\* C30 (amended): handling /setprompt never calls the language model and
\* appends no record to a history store; it changes the stored prompt of that
\* chat and, when the write to Deno KV fails, it also turns Deno KV off for
\* the rest of the process; the stored prompts and the stored histories of
\* the other chats stay as they were.
C30_PromptAndKvClientOnly ==
    [][\A c \in Chats :
          SetPromptStep(c) =>
              /\ NoModelCall
              /\ HistoriesUnchanged
              /\ OtherPromptsUnchanged(c)
              /\ kvClient' # kvClient =>
                    /\ kvClient /\ ~kvClient'
                    /\ ret'.kind = "setPrompt" /\ ret'.err # NoError
                    /\ \E t \in Tasks :
                          /\ hcur[t].chat = c
                          /\ promptsFallback'[c] = hcur[t].storedPrompt]_vars

\* /setprompt of chat 1 has been handled and acknowledged while chat 2 has a
\* history in memory and prompts in every store
C30_Witness ==
    /\ hret.cmd = "/setprompt"
    /\ hret.chat = 1
    /\ hret.outcome = "returned"
    /\ hret.storedPrompt = "X"
    /\ hret.sent
    /\ ~hret.llmCalled
    /\ chatPrompts = [c \in Chats |-> IF c = 1 THEN "X" ELSE "Y"]
    /\ kvPrompts[2] = "Y"
    /\ Len(kv[2]) = DEFAULT_KEEP
    /\ storeMessages = 1

----------------------------------------------------------------------------
(* Messages and prompt changes in turn, one chat: what each message puts   *)
(* into its context and what it persists.  part_004:180-237, part_003:58-89 *)

MaxTurns == 3

PromptVersions == {1, 2}

persistedCombinedMessage(storedPrompt, userText) ==
    combinedUserMessage(storedPrompt, userText)

\* part_004:237 and part_003:89: the text handed to saveInteraction or
\* saveConversation is the incoming text
persistedUserText(storedPrompt, userText) == userText

\* the records persisted so far
Persisted == [k \in 1..Len(output) |-> output[k].record]

\* getLastMessages(chatId, 5)
LastFive(records) == SubSeq(records, Max(1, Len(records) - 4), Len(records))

InitTurns ==
    /\ InitNoStore
    /\ input = [storedPrompt |-> NoText]
    /\ output = << >>

TurnFrame == UNCHANGED <<kvVars, dbVars, botVars, diskVars>>

\* /setprompt, or setPrompt of db.supabase.ts: the prompt of the chat changes
TurnSetPrompt ==
    /\ \E v \in PromptVersions, n \in 1..MaxLines :
          input' = [storedPrompt |-> TextOf("prompt", v, n)]
    /\ input' # input
    /\ UNCHANGED output
    /\ TurnFrame

\* clearPrompt: the chat has no prompt any more
TurnClearPrompt ==
    /\ input.storedPrompt # NoText
    /\ input' = [storedPrompt |-> NoText]
    /\ UNCHANGED output
    /\ TurnFrame

\* a text message is handled: history, prompt, context, reply, record
TurnMessage(by) ==
    /\ Len(output) < MaxTurns
    /\ LET k == Len(output) + 1
           userText == TextOf("new", k, 1)
           history == LastFive(Persisted)
       IN output' = Append(output,
             [by |-> by,
              prompt |-> input.storedPrompt,
              history |-> history,
              lines |-> contextWithPrompt(history, input.storedPrompt, userText),
              record |-> [userMessage |->
                              persistedUserText(input.storedPrompt, userText),
                          botReply |-> TextOf("bot", k, 1)]])
    /\ UNCHANGED input
    /\ TurnFrame

NextTurns ==
    \/ TurnSetPrompt
    \/ TurnClearPrompt
    \/ TurnMessage("handleTelegramUpdate")
    \/ TurnMessage("processIncomingMessage")

SpecTurns == InitTurns /\ [][NextTurns]_vars

----------------------------------------------------------------------------
(* Claims on SpecTurns *)

IsPromptLine(line) == line.body[1] = "prompt"

NoPromptIn(text) == \A i \in 1..Len(text) : text[i][1] # "prompt"

----------------------------------------------------------------------------
(* saveInteraction of part_005 on a chat of which db.json and Deno KV hold *)
(* DEFAULT_KEEP - 1 records from an earlier process                         *)

MaxDiskKeepSaves == 2

DiskStored(c, n) ==
    [i \in 1..n |-> [chat |-> c, timestamp |-> i - 1 - n, call |-> i,
                     chatId |-> c, userId |-> 1]]

InitDiskKeep ==
    /\ InitDb
    /\ InitBot
    /\ InitModule
    /\ input = << >>
    /\ output = << >>
    /\ kv = [c \in Chats |-> IF c = 1 THEN DiskStored(c, DEFAULT_KEEP - 1) ELSE << >>]
    /\ kvPrompts = [c \in Chats |-> NoPrompt]
    /\ calls = [c \in Chats |-> IF c = 1 THEN DEFAULT_KEEP - 1 ELSE 0]
    /\ lastTs = [c \in Chats |-> -1]
    /\ written = kv
    /\ dbJson = [c \in Chats |-> [i \in 1..Len(kv[c]) |-> DiskMessage(kv[c][i])]]
    /\ dbJsonPrompts = [c \in Chats |-> NoPrompt]
    /\ loaded = [t \in Tasks |-> NotLoaded]
    /\ diskFailed = FALSE

NextDiskKeep ==
    \E t \in SeqTasks :
        \/ \E c \in SingleChat, u \in Users :
              /\ calls[c] < DEFAULT_KEEP - 1 + MaxDiskKeepSaves
              /\ DiskSaveInteraction(t, c, u)
        \/ SaveSetDone(t) /\ UNCHANGED appVars
        \/ SaveListDone(t) /\ UNCHANGED appVars
        \/ SaveDelDone(t) /\ UNCHANGED appVars

SpecDiskKeep == InitDiskKeep /\ [][NextDiskKeep]_vars

----------------------------------------------------------------------------
(* Claims on SpecDiskKeep *)

NoCallInFlight == \A t \in Tasks : pc[t] = "idle"

----------------------------------------------------------------------------
(* Further claims on Spec: concurrent calls over a filled KV database *)

KvStages == {"saveSet", "saveList", "saveDel"}

\* the saveInteraction call of task t returns in this step, from a KV request
SaveReturns(t) == pc[t] \in KvStages /\ pc'[t] = "idle"

\* C33: the write that demotes the store is not lost.  Wherever KV fails in
\* saveInteraction -- on the set, on the list of the prune step or on a
\* delete, the set having succeeded -- the call returns normally with its
\* record as the newest entry of the in-memory fallback of its chat and with
\* KV turned off, so that the reads that start afterwards are served from
\* that fallback; after a successful set the failure is reported as such.
C33_DemotingWriteIsKept ==
    [][/\ \A t \in Tasks :
             (SaveReturns(t) /\ ret'.err # NoError) =>
                LET arr == memoryFallback'[cur[t].chat]
                IN /\ ret'.outcome = "returned"
                   /\ ret'.memWrote
                   /\ Len(arr) > 0
                   /\ arr[Len(arr)] = cur[t].record
                   /\ ~kvClient'
                   /\ ret'.kvWrote = (pc[t] # "saveSet")
       /\ (pc' = pc /\ ~kvClient /\ ret'.kind = "read" /\ ret' # ret) =>
             ret'.value = FallbackRead(memoryFallback[ret'.chat], ret'.limit)]_vars

\* the prune step failed after the set: the record is in KV, which holds one
\* record too many, and in the in-memory fallback
C33_Witness ==
    /\ SaveReturned
    /\ ret.err # NoError
    /\ ret.kvWrote
    /\ ret.memWrote
    /\ ~kvClient
    /\ Len(kv[ret.chat]) = DEFAULT_KEEP + 1
    /\ ret.call \in CallsOf(kv[ret.chat])
    /\ memoryFallback[ret.chat][Len(memoryFallback[ret.chat])].call = ret.call

----------------------------------------------------------------------------
(* One caller saving and reading with several limits, over a KV database   *)
(* that an earlier process has filled, until well after a demotion          *)

MaxDemotedSaves == 6

ReadLimits == {0, 2, DEFAULT_KEEP, DEFAULT_KEEP + 1}

NextDemoted ==
    \E t \in SeqTasks, c \in SingleChat :
        \/ NewSaves < MaxDemotedSaves /\ saveInteraction(t, c) /\ UNCHANGED appVars
        \/ SaveSetDone(t) /\ UNCHANGED appVars
        \/ SaveListDone(t) /\ UNCHANGED appVars
        \/ SaveDelDone(t) /\ UNCHANGED appVars
        \/ \E limit \in ReadLimits : getLastMessages(t, c, limit) /\ UNCHANGED appVars
        \/ ReadDone(t) /\ UNCHANGED appVars

SpecDemoted == InitStored /\ [][NextDemoted]_vars

----------------------------------------------------------------------------
(* Claims on SpecDemoted *)

\* the last k entries of a sequence
LastOf(arr, k) == SubSeq(arr, Len(arr) - Min(Len(arr), k) + 1, Len(arr))

\* the saveInteraction call that returns in this step, and its record
Saving(t) == pc'[t] = "idle" /\ ret'.kind = "save" /\ ret'.memWrote
SavedRecord(t) ==
    IF pc[t] = "idle"
    THEN [chat |-> ret'.chat, timestamp |-> now', call |-> calls'[ret'.chat]]
    ELSE cur[t].record

\* C34: after a demotion, the in-memory fallback of a chat is changed only
\* by a saveInteraction call appending its own record and keeping the last
\* `keep`, so it holds, in call order, the last min(n, keep) records saved
\* since and including the demoting call and no record that KV held before;
\* a getLastMessages(chatId, limit) that starts after the demotion returns
\* the last min(n, keep, limit) of them.
C34_OnlyRecordsSinceDemotion ==
    [][/\ \A c \in Chats :
             memoryFallback'[c] # memoryFallback[c] =>
                \E t \in Tasks :
                    /\ Saving(t)
                    /\ ret'.chat = c
                    /\ ~kvClient'
                    /\ memoryFallback'[c] =
                          LastOf(Append(memoryFallback[c], SavedRecord(t)), DEFAULT_KEEP)
       /\ (pc' = pc /\ ~kvClient /\ ret'.kind = "read" /\ ret' # ret) =>
             /\ ret'.value = LastOf(memoryFallback[ret'.chat], ret'.limit)
             /\ CallSeq(ret'.value) =
                   LastCalls(calls[ret'.chat],
                             Min(Len(memoryFallback[ret'.chat]), ret'.limit))
             /\ \A i \in 1..Len(ret'.value) : ret'.value[i].call > DEFAULT_KEEP
       /\ ~kvClient' =>
             \A c \in Chats :
                /\ Len(memoryFallback'[c]) <= DEFAULT_KEEP
                /\ \A i \in 1..Len(memoryFallback'[c]) :
                      memoryFallback'[c][i].call > DEFAULT_KEEP]_vars

\* six records were saved since the demotion and a read with limit 6 has
\* returned the last five of them, while KV still holds older records
C34_Witness ==
    /\ ReadReturned
    /\ Demoted
    /\ ret.limit = DEFAULT_KEEP + 1
    /\ calls[1] = DEFAULT_KEEP + 6
    /\ CallSeq(ret.value) = <<7, 8, 9, 10, 11>>
    /\ CallSeq(memoryFallback[1]) = <<7, 8, 9, 10, 11>>
    /\ 5 \in CallsOf(kv[1])

----------------------------------------------------------------------------
(* saveInteraction calls of two tasks on one chat, in flight together, over *)
(* a KV database that holds DEFAULT_KEEP records of the chat                *)

MaxRaceSaves == 3

\* one of the deletes issued by Promise.all (line 164) takes effect in the
\* database before the others; deleting a key that is not there changes nothing
SaveDelOne(t) ==
    /\ pc[t] = "saveDel"
    /\ \E k \in cur[t].del :
          /\ kv' = Delete(kv, {k})
          /\ cur' = [cur EXCEPT ![t].del = @ \ {k}]
    /\ UNCHANGED <<kvRuntime, kvClient, kvPrompts, memoryFallback, promptsFallback,
                   now, calls, pc, ret, issued, firstOp, lastTs, tsTie, restarts,
                   prevDemoted>>
    /\ UNCHANGED dbVars

NextRace ==
    \E t \in Tasks :
        \/ SaveDelOne(t) /\ UNCHANGED appVars
        \/ \E c \in SingleChat :
              NewSaves < MaxRaceSaves /\ saveInteraction(t, c) /\ UNCHANGED appVars
        \/ SaveSetDone(t) /\ UNCHANGED appVars
        \/ SaveListDone(t) /\ UNCHANGED appVars
        \/ SaveDelDone(t) /\ UNCHANGED appVars

SpecRace == InitStored /\ [][NextRace]_vars

----------------------------------------------------------------------------
(* Claims on SpecRace *)

\* the records of chat c that this step removes from KV
Removed(c) == Range(kv[c]) \ Range(kv'[c])

\* how many records of s are at least as new as r
AsNewAs(s, r) == Cardinality({i \in 1..Len(s) : s[i].timestamp >= r.timestamp})

\* C35: with KV as the active tier, however the set, the list and the
\* deletes of concurrent saveInteraction calls on one chat interleave: once
\* all calls have returned KV holds at most keep records of the chat; a
\* record is deleted only when keep records at least as new remain; and a
\* prune whose keys have been deleted by another call in the meantime
\* completes like any other.
C35_ConcurrentPrunesKeepNewest ==
    [][\A c \in Chats :
          /\ (kvClient' /\ NoCallInFlight') => Len(kv'[c]) <= DEFAULT_KEEP
          /\ kvClient' => \A r \in Removed(c) : AsNewAs(kv'[c], r) >= DEFAULT_KEEP
          /\ \A t \in Tasks :
                (pc[t] = "saveDel" /\ pc'[t] = "idle" /\ ret'.err = NoError) =>
                    /\ kv' = Delete(kv, cur[t].del)
                    /\ kvClient' = kvClient]_vars

\* task 1 has returned; task 2 listed before task 1 deleted and is about to
\* delete a key that is no longer there
C35_Witness ==
    /\ kvClient
    /\ pc[1] = "idle"
    /\ ret.kind = "save" /\ ret.err = NoError /\ ret.kvWrote
    /\ pc[2] = "saveDel"
    /\ cur[2].del # {}
    /\ cur[2].del \cap KeysOf(kv[1]) = {}
    /\ Len(kv[1]) = DEFAULT_KEEP

----------------------------------------------------------------------------
(* The disk part of saveInteraction and of setPrompt, part_005:377-394 and *)
(* 419-429, one await at a time: loadDB, then the change of the loaded     *)
(* object, then saveDB; then the KV part of the call                       *)

MaxDiskCalls == 2

\* saveInteraction and setPrompt calls started
DiskCalls == calls[1] + calls[2]

DiskFrame ==
    UNCHANGED <<kvRuntime, kvClient, kv, kvPrompts, restarts, prevDemoted,
                dbVars, fnVars, botVars>>

\* part_005:367-379: the record is built and loadDB is awaited
DiskSaveCall(t, c) ==
    /\ pc[t] = "idle"
    /\ now' \in now..Min(now + 1, MaxClock)
    /\ LET record == [chat |-> c, timestamp |-> now', call |-> calls[c] + 1,
                      chatId |-> c, userId |-> 1]
       IN /\ written' = [written EXCEPT ![c] = Append(@, record)]
          /\ cur' = [cur EXCEPT ![t] = [Idle EXCEPT !.chat = c, !.record = record]]
          /\ lastTs' = [lastTs EXCEPT ![c] = now']
          /\ tsTie' = [tsTie EXCEPT ![c] = @ \/ now' <= lastTs[c]]
    /\ calls' = [calls EXCEPT ![c] = @ + 1]
    /\ pc' = [pc EXCEPT ![t] = "diskLoad"]
    /\ UNCHANGED <<ret, memoryFallback, promptsFallback, issued, firstOp,
                   dbJson, dbJsonPrompts, loaded, diskFailed>>
    /\ DiskFrame

\* part_005:422: setPrompt awaits loadDB
DiskSetPromptCall(t, c, prompt) ==
    /\ pc[t] = "idle"
    /\ cur' = [cur EXCEPT ![t] = [Idle EXCEPT !.chat = c, !.prompt = prompt]]
    /\ calls' = [calls EXCEPT ![c] = @ + 1]
    /\ pc' = [pc EXCEPT ![t] = "promptLoad"]
    /\ UNCHANGED <<ret, memoryFallback, promptsFallback, issued, firstOp, now,
                   lastTs, tsTie, dbJson, written, dbJsonPrompts, loaded,
                   diskFailed>>
    /\ DiskFrame

\* part_005:379-390 and 422-425: loadDB returns; the message is pushed to,
\* or the prompt is set in, the object it returned; saveDB is awaited
DiskLoadDone(t) ==
    /\ pc[t] \in {"diskLoad", "promptLoad"}
    /\ \E db \in loadDB :
          /\ loaded' = [loaded EXCEPT ![t] =
                           IF pc[t] = "diskLoad"
                           THEN diskPush(db, cur[t].chat, DiskMessage(cur[t].record))
                           ELSE [db EXCEPT !.prompts[cur[t].chat] = cur[t].prompt]]
          /\ diskFailed' = (diskFailed \/ db # onDisk)
    /\ pc' = [pc EXCEPT ![t] = IF pc[t] = "diskLoad" THEN "diskWrite"
                                                      ELSE "promptWrite"]
    /\ UNCHANGED <<cur, ret, memoryFallback, promptsFallback, issued, firstOp,
                   now, calls, lastTs, tsTie, dbJson, written, dbJsonPrompts>>
    /\ DiskFrame

\* part_005:327-333: db.json is replaced by the object of this call, or the
\* write fails and is only logged
saveDB(t) ==
    \/ /\ dbJson' = loaded[t].messages
       /\ dbJsonPrompts' = loaded[t].prompts
       /\ UNCHANGED diskFailed
    \/ /\ UNCHANGED <<dbJson, dbJsonPrompts>>
       /\ diskFailed' = TRUE

\* part_005:391-404: saveDB returns and the KV part of saveInteraction begins
DiskSaveWriteDone(t) ==
    /\ pc[t] = "diskWrite"
    /\ saveDB(t)
    /\ loaded' = [loaded EXCEPT ![t] = NotLoaded]
    /\ firstOp' = FirstOp(KvGuard(kvClient))
    /\ issued' = KvGuard(kvClient)
    /\ IF KvGuard(kvClient)
       THEN /\ pc' = [pc EXCEPT ![t] = "saveSet"]
            /\ UNCHANGED <<cur, ret, memoryFallback>>
       ELSE SaveFallback(t, cur[t].chat, cur[t].record, NoError, FALSE)
    /\ UNCHANGED <<promptsFallback, now, calls, lastTs, tsTie, written>>
    /\ DiskFrame

\* part_005:426-440: saveDB returns and the KV part of setPrompt begins
DiskPromptWriteDone(t) ==
    /\ pc[t] = "promptWrite"
    /\ saveDB(t)
    /\ loaded' = [loaded EXCEPT ![t] = NotLoaded]
    /\ firstOp' = FirstOp(KvGuard(kvClient))
    /\ issued' = KvGuard(kvClient)
    /\ IF KvGuard(kvClient)
       THEN /\ pc' = [pc EXCEPT ![t] = "setPrompt"]
            /\ UNCHANGED <<cur, ret, promptsFallback>>
       ELSE /\ promptsFallback' = [promptsFallback EXCEPT
                                      ![cur[t].chat] = cur[t].prompt]
            /\ PromptReturn(t, cur[t].chat, "setPrompt", cur[t].prompt,
                            NoPrompt, NoError)
    /\ UNCHANGED <<memoryFallback, now, calls, lastTs, tsTie, written>>
    /\ DiskFrame

NextDiskRace ==
    \E t \in Tasks :
        \/ \E c \in Chats : DiskCalls < MaxDiskCalls /\ DiskSaveCall(t, c)
        \/ \E c \in Chats, prompt \in Prompts :
              DiskCalls < MaxDiskCalls /\ DiskSetPromptCall(t, c, prompt)
        \/ DiskLoadDone(t)
        \/ DiskSaveWriteDone(t)
        \/ DiskPromptWriteDone(t)
        \/ SaveSetDone(t) /\ UNCHANGED appVars
        \/ SaveListDone(t) /\ UNCHANGED appVars
        \/ SetPromptDone(t) /\ UNCHANGED appVars

SpecDiskRace == InitKv /\ [][NextDiskRace]_vars

----------------------------------------------------------------------------
(* Claims on SpecDiskRace *)

\* some setPrompt call for chat c has returned
PromptPassed(c) == kvPrompts[c] # NoPrompt \/ promptsFallback[c] # NoPrompt

\* C36: in the disk-backed variant, once every call in flight has returned
\* and no read or write of db.json has failed, db.json holds every record
\* that was passed to saveInteraction and a prompt for every chat that
\* setPrompt was called for, however the load, modify and write steps of
\* concurrent calls interleave.
C36_AsClaimed ==
    (NoCallInFlight /\ ~diskFailed) =>
        \A c \in Chats :
            /\ \A i \in 1..Len(written[c]) :
                  DiskMessage(written[c][i]) \in Range(dbJson[c])
            /\ PromptPassed(c) => dbJsonPrompts[c] # NoPrompt

----------------------------------------------------------------------------
(* Updates with and without a text message, to either Telegram controller *)

\* line 77, part_004:77: `!message || !message.text`; the handler returns
HandleNoText(t, c) ==
    /\ Receive(t, c, "handleTelegramUpdate", "notext")
    /\ HReturn(t, Locals(t, c, "handleTelegramUpdate", "notext"), "skipped", "none")
    /\ UNCHANGED <<chatPrompts, storeMessages, outbox, lastSet>>
    /\ UNCHANGED <<kvVars, dbVars>>
    /\ HConfig

NextUpdates ==
    \/ NextApp
    \/ \E t \in SeqTasks, c \in SingleChat : updates < MaxUpdates /\ HandleNoText(t, c)

SpecUpdates == InitApp /\ [][NextUpdates]_vars

----------------------------------------------------------------------------
(* Claims on SpecUpdates *)

\* how often the send was called for update u
SendsFor(box, u) == Cardinality({i \in 1..Len(box) : box[i].update = u})

\* everything that is stored: KV, the memory tiers, the conversations table,
\* the dataStore and db.json
Stores ==
    <<kv, kvPrompts, memoryFallback, promptsFallback, kvClient, conversations,
      chat_prompts, chatPrompts, storeMessages, dbJson, dbJsonPrompts>>

\* C37: handleTelegramUpdate calls the outbound send exactly once for an
\* update with a text, whatever the branch (/start, /help, /setprompt with
\* and without a text, /getprompt, any other text, the language model
\* failing): never twice, and once by the time it returns.  For an update
\* without a text it calls no send and changes no store.
C37_OneSendPerTextUpdate ==
    [][/\ \A u \in 1..updates' : SendsFor(outbox', u) <= 1
       /\ (hret' # hret /\ hret'.handler = "handleTelegramUpdate") =>
             IF hret'.cmd = "notext"
             THEN /\ outbox' = outbox
                  /\ Stores' = Stores
             ELSE SendsFor(outbox', hret'.update) = 1]_vars

\* the first update was a /setprompt without a text, answered once with the
\* usage; the second had no text, and its handler returned without a send
C37_Witness ==
    /\ updates = 2
    /\ hret.handler = "handleTelegramUpdate"
    /\ hret.update = 2
    /\ hret.cmd = "notext"
    /\ hret.outcome = "skipped"
    /\ Len(outbox) = 1
    /\ outbox[1].update = 1
    /\ outbox[1].reply.text = "Usage"

----------------------------------------------------------------------------
(* POST /api/telegram/webhook, index.deno.ts:85-119, with                 *)
(* validateWebhookSecret, botController.deno.ts:188-198                    *)

\* what `headers.get(name)` gives for an absent header, and Deno.env.get
\* for an unset variable
Null == <<"null">>
Undefined == <<"undefined">>

\* `value || ""`
OrEmpty(value) == IF value = Undefined \/ ~Truthy(value) THEN << >> ELSE value

validateWebhookSecretSkipped(requestSecret, expectedSecret) == TRUE

\* botController.deno.ts:188-198
validateWebhookSecret(requestSecret, expectedSecret) ==
    IF ~Truthy(expectedSecret) THEN TRUE ELSE requestSecret = expectedSecret

\* the requests to the endpoint: the secret of the environment, the header
\* of the request, whether the body parses as JSON, whether the bot token and
\* the Groq key are set, and the update of the body
WebhookRequests ==
    [secret : Strings \cup {Undefined},
     header : Strings \cup {Null},
     json : BOOLEAN, botToken : BOOLEAN, groqApiKey : BOOLEAN,
     message : {[present |-> FALSE, text |-> << >>],
                [present |-> TRUE, text |-> StartText]}]

NotStarted == Ended("none", "none", << >>)

Response(status, started, update) ==
    [status |-> status, started |-> started, update |-> update]

\* index.deno.ts:85-119
handleRequestTelegram(request) ==
    LET webhookSecret == OrEmpty(request.secret)
    IN IF ~validateWebhookSecret(request.header, webhookSecret)
       THEN Response(401, FALSE, NotStarted)
       ELSE IF ~request.json THEN Response(400, FALSE, NotStarted)
       ELSE IF ~request.botToken \/ ~request.groqApiKey
       THEN Response(500, FALSE, NotStarted)
       ELSE Response(200, TRUE, handleTelegramUpdateTexts(request.message, Threw))

InitSecret ==
    /\ InitNoStore
    /\ input \in WebhookRequests
    /\ output = << >>

ApplyHandleRequest ==
    /\ Len(output) = 0
    /\ output' = <<handleRequestTelegram(input)>>
    /\ TextFrame

NextSecret == ApplyHandleRequest

SpecSecret == InitSecret /\ [][NextSecret]_vars

----------------------------------------------------------------------------
(* Claims on SpecSecret *)

\* C38: with a non-empty webhook secret configured, handleTelegramUpdate is
\* started only for a request whose X-Telegram-Bot-Api-Secret-Token header
\* equals the secret; a request without the header or with another value is
\* answered 401, starts no handler, sends nothing and changes no store.
C38_OnlyWithTheSecret ==
    [][(Len(output') = 1 /\ input.secret # Undefined /\ Truthy(input.secret)) =>
          /\ output'[1].started => input.header = input.secret
          /\ input.header # input.secret =>
                /\ output'[1].status = 401
                /\ ~output'[1].started
                /\ output'[1].update.sent = << >>
                /\ outbox' = outbox
                /\ Stores' = Stores]_vars

\* a request with a secret that is not the configured one was answered 401,
\* though its body held a /start update and the tokens were set
C38_Witness ==
    /\ Len(output) = 1
    /\ input.secret = <<"a">>
    /\ input.header = <<"a", "a">>
    /\ input.json /\ input.botToken /\ input.groqApiKey
    /\ input.message.present
    /\ output[1].status = 401
    /\ ~output[1].started

----------------------------------------------------------------------------
(* generateResponse, llmService.deno.ts:91-109, one await at a time: the  *)
(* trace of a call holds the provider calls it has made and its return     *)

Step(call, outcome) == [call |-> call, outcome |-> outcome]

FallbackAlways(trace) == Len(trace) = 1

\* lines 95-101: the catch of the Groq error falls through to the second try
FallbackDue(trace) == Len(trace) = 1 /\ trace[1].outcome.threw

\* line 94
LlmCallGroq ==
    /\ output = << >>
    /\ output' = <<Step("callGroq", callGroq(input.groq))>>
    /\ TextFrame

\* line 102
LlmCallGemini ==
    /\ FallbackDue(output)
    /\ output' = Append(output, Step("callGemini", callGemini(input.gemini)))
    /\ TextFrame

\* lines 94, 102 and 105-107: what the awaited call returned is returned; a
\* failed Gemini call gives the apology
LlmReturn ==
    /\ Len(output) >= 1
    /\ LET last == output[Len(output)]
       IN /\ last.call # "return"
          /\ last.call = "callGroq" => ~last.outcome.threw
          /\ output' = Append(output,
                 Step("return", IF last.outcome.threw THEN Returned(LaterApology)
                                                      ELSE last.outcome))
    /\ TextFrame

NextFallback == LlmCallGroq \/ LlmCallGemini \/ LlmReturn

SpecFallback == InitLlm /\ [][NextFallback]_vars

----------------------------------------------------------------------------
(* Claims on SpecFallback *)

StepsOf(trace, call) == {k \in 1..Len(trace) : trace[k].call = call}

\* C39: within one generateResponse call Gemini is called only after the
\* Groq call of that call has failed; each provider is called at most once;
\* and when the Groq call succeeds, what it returned is what
\* generateResponse returns, with no Gemini call made.
C39_FallbackOnlyAfterFailure ==
    /\ \A k \in StepsOf(output, "callGemini") :
          k = 2 /\ output[1].call = "callGroq" /\ output[1].outcome.threw
    /\ Cardinality(StepsOf(output, "callGroq")) <= 1
    /\ Cardinality(StepsOf(output, "callGemini")) <= 1
    /\ \A k \in StepsOf(output, "return") :
          /\ output[k].outcome = generateResponse(input.groq, input.gemini)
          /\ ~output[1].outcome.threw =>
                /\ output[k].outcome = output[1].outcome
                /\ output[k].outcome.text = trim(input.groq.content)
                /\ StepsOf(output, "callGemini") = {}

\* Groq answered with a text; it was returned, and Gemini, which would have
\* answered too, was not called
C39_Witness ==
    /\ Len(output) = 2
    /\ output[1].call = "callGroq" /\ output[2].call = "return"
    /\ output[2].outcome = Returned(<<"a">>)
    /\ input.groq.kind = "ok" /\ input.groq.content = <<" ", "a">>
    /\ input.gemini.kind = "ok" /\ input.gemini.present

----------------------------------------------------------------------------
(* POST /webhook/meta, part_005:189-260, with verifyMetaSignature,        *)
(* part_005:26-48                                                          *)

MaxEvents == 2

\* FB_APP_SECRET: unset, empty, or one of two secrets
AppSecrets == {Undefined, << >>, <<"k", "1">>, <<"k", "2">>}

\* the raw body: whether it parses as JSON, whether its object is "page",
\* and how many of its messaging events have a sender and a text
Bodies == [json : BOOLEAN, page : BOOLEAN, events : 0..MaxEvents]

\* lines 31-42: the lower-case hex of the HMAC-SHA256 of the body under the
\* key; two digests are equal only for the same key and the same body
hmacHex(key, rawBody) == [key |-> key, body |-> rawBody, upper |-> FALSE]

\* the x-hub-signature-256 header: absent, a text that does not start with
\* "sha256=", or "sha256=" followed by a digest in lower or upper case (or
\* by nothing)
NoDigest == [key |-> << >>, body |-> [json |-> FALSE, page |-> FALSE, events |-> 0],
             upper |-> FALSE]

Signatures ==
    {[kind |-> k, hex |-> NoDigest] : k \in {"absent", "other", "sha256="}}
      \cup {[kind |-> "sha256=", hex |-> [key |-> key, body |-> b, upper |-> u]] :
               key \in {<<"k", "1">>, <<"k", "2">>},
               b \in {[json |-> TRUE, page |-> TRUE, events |-> n] : n \in 1..MaxEvents},
               u \in BOOLEAN}

startsWithSha256(signature) == signature.kind = "sha256="

verifyMetaSignaturePrefixOnly(appSecret, rawBody, signatureHeader, cryptoThrows) ==
    startsWithSha256(signatureHeader)

\* part_005:26-48
verifyMetaSignature(appSecret, rawBody, signatureHeader, cryptoThrows) ==
    IF ~startsWithSha256(signatureHeader) THEN FALSE
    ELSE IF cryptoThrows THEN FALSE
    ELSE hmacHex(appSecret, rawBody) = signatureHeader.hex

MetaResponse(status, started) == [status |-> status, started |-> started]

\* part_005:189-260; started: the processIncomingMessage calls made
handleRequestMeta(request) ==
    LET appSecret == request.appSecret
        signature == request.signature
    IN IF appSecret = Undefined \/ ~Truthy(appSecret) THEN MetaResponse(500, 0)
       ELSE IF ~startsWithSha256(signature) THEN MetaResponse(403, 0)
       ELSE IF ~verifyMetaSignature(appSecret, request.rawBody, signature,
                                    request.cryptoThrows)
       THEN MetaResponse(403, 0)
       ELSE IF ~request.rawBody.json THEN MetaResponse(400, 0)
       ELSE IF ~request.rawBody.page THEN MetaResponse(404, 0)
       ELSE MetaResponse(200, request.rawBody.events)

InitMeta ==
    /\ InitNoStore
    /\ input \in [appSecret : AppSecrets, signature : Signatures, rawBody : Bodies,
                  cryptoThrows : BOOLEAN]
    /\ output = << >>

ApplyHandleRequestMeta ==
    /\ Len(output) = 0
    /\ output' = <<handleRequestMeta(input)>>
    /\ TextFrame

NextMeta == ApplyHandleRequestMeta

SpecMeta == InitMeta /\ [][NextMeta]_vars

----------------------------------------------------------------------------
(* Claims on SpecMeta *)

\* the header of the request is "sha256=" followed by the digest of its raw
\* body under the configured app secret
Verifies(request) ==
    /\ request.appSecret # Undefined
    /\ Truthy(request.appSecret)
    /\ request.signature.kind = "sha256="
    /\ request.signature.hex = hmacHex(request.appSecret, request.rawBody)

\* C40: on POST /webhook/meta processIncomingMessage is started only for a
\* request whose x-hub-signature-256 header verifies against the configured
\* app secret over the raw body; a request whose signature is missing,
\* malformed or not matching, or that arrives while no app secret is
\* configured, starts no message processing and changes no store.
C40_OnlySignedRequests ==
    [][Len(output') = 1 =>
          /\ output'[1].started > 0 => Verifies(input)
          /\ ~Verifies(input) =>
                /\ output'[1].started = 0
                /\ output'[1].status \in {403, 500}
                /\ outbox' = outbox
                /\ Stores' = Stores]_vars

\* a body with two events, signed with another secret than the configured
\* one, was refused and no processing was started
C40_Witness ==
    /\ Len(output) = 1
    /\ input.appSecret = <<"k", "1">>
    /\ input.signature.kind = "sha256="
    /\ input.signature.hex = hmacHex(<<"k", "2">>, input.rawBody)
    /\ input.rawBody = [json |-> TRUE, page |-> TRUE, events |-> 2]
    /\ ~input.cryptoThrows
    /\ output[1] = MetaResponse(403, 0)

====
